---- MODULE Spec2Model ----
(***************************************************************************)
(* Local network orchestrator (tools/local_network.py): the process        *)
(* supervisor of a Node (start / stop / status), the Network manager       *)
(* (start / stop / wait) and the control server's command handler.         *)
(***************************************************************************)
EXTENDS Integers, Sequences, FiniteSets, TLC

\* ---------------------------------------------------------------- bounds
NumNodes == 2          \* nodes added to the Network before it is started
Gens == 2              \* process identities kept apart per node and binary

\* ------------------------------------------------------------- constants
None == 0              \* Python's None for a process handle

Nodes == 1..NumNodes                    \* network.nodes, in list order
NodeName(i) == i                        \* Node.name of the i-th node
UnknownName == NumNodes + 1             \* a name that no node carries
Names == Nodes \cup {UnknownName}       \* arguments a client may send

ConsensusBin == "consensus-servi"
LedgerDistBin == "ledger-distribu"
GatewayBin == "mc-admin-http-g"
OwnBins == <<ConsensusBin, LedgerDistBin, GatewayBin>>
OtherBins == {"filebeat", "prometheus", "mobilecoind"}
\* the order of the pkill chain of Network.stop
KillOrder == <<ConsensusBin, LedgerDistBin, GatewayBin, "filebeat", "prometheus", "mobilecoind">>

\* A pid stands for one spawned process. The pids a node can get for one of
\* its binaries are kept apart from all others, so that a pid names node and
\* binary; a pid is given out again only once its process is dead and no
\* handle refers to it. `last.spawned` tells which processes are new.
Pids == 1..(NumNodes * 3 * Gens)
PidPool(n, k) == {((n - 1) * 3 + (k - 1)) * Gens + g : g \in 1..Gens}
BinOf(pid) == OwnBins[(((pid - 1) \div Gens) % 3) + 1]

VARIABLES
  consensus_process,            \* Node.consensus_process: None or a pid
  ledger_distribution_process,  \* Node.ledger_distribution_process
  admin_http_gateway_process,   \* Node.admin_http_gateway_process
  alive,                        \* the spawned processes that have not terminated
  others,                       \* foreign processes alive (filebeat, ...)
  ledger_db,                    \* node -> <ledger_dir>/data.mdb exists
  minting_keys_dir,             \* MINTING_KEYS_DIR exists
  cli,                          \* Network.cli / NetworkCLI.server
  conn,                         \* the control connection being handled
  out,                          \* what the handler sent since its last read
  wait_state,                   \* the main thread's Network.wait() call
  last,                         \* the last call: operation and outcome
  boot,                         \* the main thread's position inside Network.start()
  net,                          \* Network.nodes and Network.block_version
  entry,                        \* the position inside default_entry_point()
  network_json,                 \* node-network-<i>.json, as far as written
  uri,                          \* a peer URI: what was encoded, the text, what was read
  wait_pc,                      \* the main thread's position inside a pass of wait()
  stop_pc,                      \* the control thread's position inside Node.stop()
  resolved                      \* a call of resolve_to_json: its receiver and its outcome

\* the variables of the step-by-step views of a call and of the topology
aux == <<boot, net, entry, network_json, uri, wait_pc, stop_pc, resolved>>

\* what the steps of one view leave alone
not_boot == <<net, entry, network_json, uri, wait_pc, stop_pc, resolved>>
not_topo == <<boot, uri, wait_pc, stop_pc, resolved>>
not_uri == <<boot, net, entry, network_json, wait_pc, stop_pc, resolved>>
not_race == <<boot, net, entry, network_json, uri, resolved>>

\* the variables of the process supervision and the control server
vars_process == <<consensus_process, ledger_distribution_process, admin_http_gateway_process,
                  alive, others, ledger_db, minting_keys_dir, cli, conn, out,
                  wait_state, last>>

vars == <<vars_process, aux>>

\* the pids some handle refers to
Tracked(cp, ld, ah) ==
  ({cp[n] : n \in Nodes} \cup {ld[n] : n \in Nodes} \cup {ah[n] : n \in Nodes}) \ {None}

\* ------------------------------------------------- the world as one value
\* The methods below are functions from world to world, so that a handler
\* that calls several of them (stop then start) is their composition.
\* `spawned` collects the processes the call creates, `signalled` those it
\* terminates, `result` is "ok" or the exception that ended it.
World ==
  [consensus_process |-> consensus_process,
   ledger_distribution_process |-> ledger_distribution_process,
   admin_http_gateway_process |-> admin_http_gateway_process,
   alive |-> alive,
   others |-> others,
   ledger_db |-> ledger_db,
   minting_keys_dir |-> minting_keys_dir,
   cli |-> cli,
   spawned |-> {},
   signalled |-> {},
   result |-> "ok"]

\* subprocess.Popen(cmd, shell=True) of binary k for node n: the pid of the
\* new process, None when the model has no identity left for it
NewPid(w, n, k) ==
  LET free == PidPool(n, k) \ (w.alive
                 \cup Tracked(w.consensus_process, w.ledger_distribution_process,
                              w.admin_http_gateway_process))
  IN IF free = {} THEN None ELSE CHOOSE p \in free : \A q \in free : p <= q

\* Popen.poll() is None: the process has not terminated
PollIsNone(w, pid) == pid \in w.alive

\* Popen.terminate(): a process that has not terminated is signalled and ends
Terminate(w, pid) ==
  IF pid \in w.alive THEN [w EXCEPT !.alive = @ \ {pid}, !.signalled = @ \cup {pid}]
  ELSE w

\* Node.status without the poll(): a set handle counts as running
NodeStatus_NoPoll(w, n) ==
  IF w.consensus_process[n] = None THEN [status |-> "stopped", pid |-> 0]
  ELSE [status |-> "running, pid=", pid |-> w.consensus_process[n]]

\* Node.status()
NodeStatus(w, n) ==
  IF w.consensus_process[n] = None THEN [status |-> "stopped", pid |-> 0]
  ELSE IF ~PollIsNone(w, w.consensus_process[n]) THEN [status |-> "exited", pid |-> 0]
  ELSE [status |-> "running, pid=", pid |-> w.consensus_process[n]]

\* Node.stop with `elif` for its second and third test: one process a call
NodeStop_Elif(w, n) ==
  IF w.consensus_process[n] # None /\ PollIsNone(w, w.consensus_process[n])
  THEN [Terminate(w, w.consensus_process[n]) EXCEPT !.consensus_process[n] = None]
  ELSE IF w.ledger_distribution_process[n] # None
          /\ PollIsNone(w, w.ledger_distribution_process[n])
  THEN [Terminate(w, w.ledger_distribution_process[n])
          EXCEPT !.ledger_distribution_process[n] = None]
  ELSE IF w.admin_http_gateway_process[n] # None
          /\ PollIsNone(w, w.admin_http_gateway_process[n])
  THEN [Terminate(w, w.admin_http_gateway_process[n])
          EXCEPT !.admin_http_gateway_process[n] = None]
  ELSE w

\* Node.stop that clears a handle whether or not its process is alive
NodeStop_ClearAlways(w, n) ==
  LET w1 == IF w.consensus_process[n] # None
            THEN [Terminate(w, w.consensus_process[n]) EXCEPT !.consensus_process[n] = None]
            ELSE w
      w2 == IF w1.ledger_distribution_process[n] # None
            THEN [Terminate(w1, w1.ledger_distribution_process[n])
                    EXCEPT !.ledger_distribution_process[n] = None]
            ELSE w1
      w3 == IF w2.admin_http_gateway_process[n] # None
            THEN [Terminate(w2, w2.admin_http_gateway_process[n])
                    EXCEPT !.admin_http_gateway_process[n] = None]
            ELSE w2
  IN w3

\* Node.stop that terminates the engine and only forgets the sidecars
NodeStop_ForgetsSidecars(w, n) ==
  LET w1 == IF w.consensus_process[n] # None /\ PollIsNone(w, w.consensus_process[n])
            THEN [Terminate(w, w.consensus_process[n])
                    EXCEPT !.consensus_process[n] = None]
            ELSE w
  IN [w1 EXCEPT !.ledger_distribution_process[n] = None,
                !.admin_http_gateway_process[n] = None]

\* Node.stop(): each handle is terminated and cleared only when it is set
\* and its process is still alive
NodeStop(w, n) ==
  LET w1 == IF w.consensus_process[n] # None /\ PollIsNone(w, w.consensus_process[n])
            THEN [Terminate(w, w.consensus_process[n])
                    EXCEPT !.consensus_process[n] = None]
            ELSE w
      w2 == IF w1.ledger_distribution_process[n] # None
               /\ PollIsNone(w1, w1.ledger_distribution_process[n])
            THEN [Terminate(w1, w1.ledger_distribution_process[n])
                    EXCEPT !.ledger_distribution_process[n] = None]
            ELSE w1
      w3 == IF w2.admin_http_gateway_process[n] # None
               /\ PollIsNone(w2, w2.admin_http_gateway_process[n])
            THEN [Terminate(w2, w2.admin_http_gateway_process[n])
                    EXCEPT !.admin_http_gateway_process[n] = None]
            ELSE w2
  IN w3

\* What the engine does while Node.start() waits for its ledger database
EngineOutcomes == {"ready", "crashed"}

\* Node.start(network), lines 122-128: previously tracked sidecars
StartClearSidecars(w, n) ==
  LET w1 == IF w.ledger_distribution_process[n] # None
            THEN [Terminate(w, w.ledger_distribution_process[n])
                    EXCEPT !.ledger_distribution_process[n] = None]
            ELSE w
      w2 == IF w1.admin_http_gateway_process[n] # None
            THEN [Terminate(w1, w1.admin_http_gateway_process[n])
                    EXCEPT !.admin_http_gateway_process[n] = None]
            ELSE w1
  IN w2

\* Node.start(network), lines 235-251: the two sidecars
StartSidecars(w, n) ==
  LET p1 == NewPid(w, n, 2)
      p2 == NewPid(w, n, 3)
  IN IF p1 = None \/ p2 = None THEN [w EXCEPT !.result = "no pid"]
     ELSE [w EXCEPT !.ledger_distribution_process[n] = p1,
                    !.admin_http_gateway_process[n] = p2,
                    !.alive = @ \cup {p1, p2},
                    !.spawned = @ \cup {p1, p2}]

\* Node.start whose readiness wait does not look at the engine's exit status
StartEngine_NoExitCheck(w, n, outcome) ==
  LET pid == NewPid(w, n, 1)
      w1 == [w EXCEPT !.consensus_process[n] = pid, !.alive = @ \cup {pid},
                      !.spawned = @ \cup {pid}]
  IN IF pid = None THEN [w EXCEPT !.result = "no pid"]
     ELSE IF w1.ledger_db[n] THEN StartSidecars(w1, n)
     ELSE IF outcome = "crashed"
          THEN StartSidecars([w1 EXCEPT !.alive = @ \ {pid}], n)
          ELSE StartSidecars([w1 EXCEPT !.ledger_db[n] = TRUE], n)

\* Node.start(network), lines 223-232: the engine and the readiness wait
StartEngine(w, n, outcome) ==
  LET pid == NewPid(w, n, 1)
      w1 == [w EXCEPT !.consensus_process[n] = pid, !.alive = @ \cup {pid},
                      !.spawned = @ \cup {pid}]
  IN IF pid = None THEN [w EXCEPT !.result = "no pid"]
     ELSE IF w1.ledger_db[n] THEN StartSidecars(w1, n)
     ELSE IF outcome = "crashed"
          THEN NodeStop([w1 EXCEPT !.alive = @ \ {pid}], n)
          ELSE StartSidecars([w1 EXCEPT !.ledger_db[n] = TRUE], n)

\* Node.start without its first line, the assertion
NodeStart_NoAssert(w, n, outcome) ==
  LET w1 == StartClearSidecars(w, n)
  IN IF ~w1.minting_keys_dir THEN [w1 EXCEPT !.result = "FileNotFoundError"]
     ELSE StartEngine(w1, n, outcome)

\* Node.start(network)
NodeStart(w, n, outcome) ==
  IF w.consensus_process[n] # None THEN [w EXCEPT !.result = "AssertionError"]
  ELSE LET w1 == StartClearSidecars(w, n)
       IN IF ~w1.minting_keys_dir THEN [w1 EXCEPT !.result = "FileNotFoundError"]
          ELSE StartEngine(w1, n, outcome)

\* ------------------------------------------------------- Network manager
\* some live process carries the name `bin`
Matches(w, bin) ==
  \/ bin \in w.others
  \/ \E p \in w.alive : BinOf(p) = bin

\* pkill -9 <bin>: every process of that name is killed
PkillOne(w, bin) ==
  [w EXCEPT !.others = @ \ {bin},
            !.alive = {p \in @ : BinOf(p) # bin}]

\* the shell's `pkill a && pkill b && ...` from its i-th command on: a pkill
\* that matches nothing exits 1 and ends the chain; the chain's exit status
RECURSIVE PkillChain(_, _)
PkillChain(w, i) ==
  IF i > Len(KillOrder) THEN [w |-> w, returncode |-> 0]
  ELSE IF ~Matches(w, KillOrder[i]) THEN [w |-> w, returncode |-> 1]
  ELSE PkillChain(PkillOne(w, KillOrder[i]), i + 1)

\* the exit statuses with which the shell may fail to run the first pkill
\* at all (3: pkill's fatal error, 127: command not found); 0: it runs
KillFaults == {0, 3, 127}

\* a Network.stop() that swallows every exit status of the kill command
NetworkStopKill_Swallow(w, fault) ==
  IF w.cli = "starting" THEN [w EXCEPT !.result = "AttributeError"]
  ELSE LET w1 == [w EXCEPT !.cli = "None"]
       IN IF fault # 0 THEN w1 ELSE PkillChain(w1, 1).w

\* Network.stop() when the kill command meets `fault`: NetworkCLI.stop() is
\* self.server.shutdown() on the thread object; then the kill chain, whose
\* exit status 1 is swallowed and whose other failures are raised again
NetworkStopKill(w, fault) ==
  IF w.cli = "starting" THEN [w EXCEPT !.result = "AttributeError"]
  ELSE LET w1 == [w EXCEPT !.cli = "None"]
           k == IF fault # 0 THEN [w |-> w1, returncode |-> fault]
                ELSE PkillChain(w1, 1)
       IN IF k.returncode \in {0, 1} THEN k.w
          ELSE [k.w EXCEPT !.result = "CalledProcessError"]

\* Network.stop() with a kill command that the shell can run
NetworkStop(w) == NetworkStopKill(w, 0)

\* Network.generate_minting_keys(): os.mkdir fails on an existing directory
GenerateMintingKeys(w) ==
  IF w.minting_keys_dir THEN [w EXCEPT !.result = "FileExistsError"]
  ELSE [w EXCEPT !.minting_keys_dir = TRUE]

\* Network.start(), lines 399-400: node.start(self) for the nodes from i on;
\* an exception of one start ends the loop
RECURSIVE StartNodes(_, _, _)
StartNodes(w, i, outcomes) ==
  IF i > NumNodes THEN w
  ELSE LET w1 == NodeStart(w, i, outcomes[i])
       IN IF w1.result # "ok" THEN w1 ELSE StartNodes(w1, i + 1, outcomes)

\* Network.start()
NetworkStart(w, outcomes) ==
  LET w1 == NetworkStop(w)
  IN IF w1.result # "ok" THEN w1
     ELSE LET w2 == GenerateMintingKeys(w1)
          IN IF w2.result # "ok" THEN w2
             ELSE LET w3 == StartNodes(w2, 1, outcomes)
                  IN IF w3.result # "ok" THEN w3
                     ELSE [w3 EXCEPT !.cli = "starting"]

\* Network.get_node that falls back to the first node
GetNode_Default(name) ==
  IF \E i \in Nodes : NodeName(i) = name
  THEN CHOOSE i \in Nodes : NodeName(i) = name /\ \A j \in Nodes : NodeName(j) = name => i <= j
  ELSE 1

\* Network.get_node(name): the first node of that name, or None
GetNode(name) ==
  IF \E i \in Nodes : NodeName(i) = name
  THEN CHOOSE i \in Nodes : NodeName(i) = name /\ \A j \in Nodes : NodeName(j) = name => i <= j
  ELSE None

\* Network.wait that looks at the engines only
WaitFindsDead_EngineOnly(w) ==
  \E n \in Nodes :
    w.consensus_process[n] # None /\ ~PollIsNone(w, w.consensus_process[n])

\* Network.wait(), one pass of the for loop (lines 409-422): some tracked
\* process of some node has terminated
WaitFindsDead(w) ==
  \E n \in Nodes :
    \/ w.consensus_process[n] # None /\ ~PollIsNone(w, w.consensus_process[n])
    \/ w.admin_http_gateway_process[n] # None /\ ~PollIsNone(w, w.admin_http_gateway_process[n])
    \/ w.ledger_distribution_process[n] # None /\ ~PollIsNone(w, w.ledger_distribution_process[n])

\* -------------------------------------------------------- control server
\* what the handler writes: one record per send
Line(text, name, status, pid) == [text |-> text, name |-> name, status |-> status, pid |-> pid]
Prompt == Line("> ", 0, "", 0)
StatusLine(w, n) == Line("<name>: <status>", NodeName(n), NodeStatus(w, n).status, NodeStatus(w, n).pid)

\* handle(), lines 310-312: a line for every node, in list order
RECURSIVE StatusLines(_, _)
StatusLines(w, i) ==
  IF i > NumNodes THEN <<>> ELSE <<StatusLine(w, i)>> \o StatusLines(w, i + 1)

\* a `stop` that stops the first node of the list as well
HandleStop_AlsoFirst(w, args) ==
  LET node == GetNode(args)
  IN IF node # None
     THEN [w |-> NodeStop(NodeStop(w, node), 1),
           sent |-> <<Line("Stopped <name>.", args, "", 0)>>]
     ELSE [w |-> w, sent |-> <<Line("Unknown node <name>", args, "", 0)>>]

\* handle(), lines 314-320: stop <args>
HandleStop(w, args) ==
  LET node == GetNode(args)
  IN IF node # None
     THEN [w |-> NodeStop(w, node), sent |-> <<Line("Stopped <name>.", args, "", 0)>>]
     ELSE [w |-> w, sent |-> <<Line("Unknown node <name>", args, "", 0)>>]

\* handle(), lines 322-329: start <args>; nothing is sent when start raises
HandleStart(w, args, outcome) ==
  LET node == GetNode(args)
  IN IF node # None
     THEN LET w1 == NodeStart(NodeStop(w, node), node, outcome)
          IN [w |-> w1,
              sent |-> IF w1.result = "ok" THEN <<Line("Started <name>.", args, "", 0)>> ELSE <<>>]
     ELSE [w |-> w, sent |-> <<Line("Unknown node <name>", args, "", 0)>>]

\* handle(), lines 304-335: one command line; the prompt follows unless the
\* command raised, which ends the handler and closes the connection
Commands == {"status", "stop", "start", "bogus"}
Handle(w, cmd, args, outcome) ==
  LET r == CASE cmd = "status" -> [w |-> w, sent |-> StatusLines(w, 1)]
             [] cmd = "stop" -> HandleStop(w, args)
             [] cmd = "start" -> HandleStart(w, args, outcome)
             [] OTHER -> [w |-> w, sent |-> <<Line("Unknown command", 0, "", 0)>>]
  IN IF r.w.result = "ok" THEN [w |-> r.w, sent |-> r.sent \o <<Prompt>>, open |-> TRUE]
     ELSE [w |-> r.w, sent |-> r.sent, open |-> FALSE]

\* ------------------------------------------------------------------ init
\* Network() has wiped the working directory and add_node has built the
\* nodes; nothing has been started.
Init ==
  /\ consensus_process = [n \in Nodes |-> None]
  /\ ledger_distribution_process = [n \in Nodes |-> None]
  /\ admin_http_gateway_process = [n \in Nodes |-> None]
  /\ alive = {}
  /\ others = {}
  /\ ledger_db = [n \in Nodes |-> FALSE]
  /\ minting_keys_dir = FALSE
  /\ cli = "None"
  /\ conn = "closed"
  /\ out = <<>>
  /\ wait_state = "idle"
  /\ last = [op |-> "init", node |-> 0, result |-> "ok", spawned |-> {}, signalled |-> {}]
  /\ boot = [pc |-> "idle", i |-> 0, steps |-> <<>>]
  /\ net = [nodes |-> <<>>, has_block_version |-> FALSE, block_version |-> None,
            result |-> "ok"]
  /\ entry = [pc |-> "idle", type |-> "", k |-> 0]
  /\ network_json = <<>>
  /\ uri = [stage |-> "none", peer_port |-> 0, pub_key |-> <<>>,
            broadcast_consensus_msgs |-> FALSE, text |-> <<>>, read |-> <<>>]
  /\ wait_pc = [node |-> 0, handle |-> 0, at |-> "idle"]
  /\ stop_pc = [node |-> 0, handle |-> 0, at |-> "idle", cmd |-> ""]
  /\ resolved = <<>>

\* the variables a method may change, taken from the world it returns
Commit(w) ==
  /\ consensus_process' = w.consensus_process
  /\ ledger_distribution_process' = w.ledger_distribution_process
  /\ admin_http_gateway_process' = w.admin_http_gateway_process
  /\ alive' = w.alive
  /\ others' = w.others
  /\ ledger_db' = w.ledger_db
  /\ minting_keys_dir' = w.minting_keys_dir
  /\ cli' = w.cli

Called(op, n, w) ==
  last' = [op |-> op, node |-> n, result |-> w.result,
           spawned |-> w.spawned, signalled |-> w.signalled]

\* the main thread is not inside Network.wait()
MainFree == wait_state \notin {"waiting", "sleeping"}

\* --------------------------------------------------------------- actions
\* a direct call of Node.start(network)
CallNodeStart(n) ==
  /\ MainFree
  /\ \E outcome \in EngineOutcomes :
       \E w \in {NodeStart(World, n, outcome)} :
          w.result # "no pid" /\ Commit(w) /\ Called("Node.start", n, w)
  /\ UNCHANGED <<conn, out, wait_state>>
  /\ UNCHANGED aux

\* a direct call of Node.stop()
CallNodeStop(n) ==
  /\ MainFree
  /\ \E w \in {NodeStop(World, n)} :
       Commit(w) /\ Called("Node.stop", n, w)
  /\ UNCHANGED <<conn, out, wait_state>>
  /\ UNCHANGED aux

\* a spawned process dies on its own
ProcessDies(pid) ==
  /\ pid \in alive
  /\ alive' = alive \ {pid}
  /\ UNCHANGED <<consensus_process, ledger_distribution_process, admin_http_gateway_process,
                 others, ledger_db, minting_keys_dir, cli, conn, out, wait_state, last>>
  /\ UNCHANGED aux

\* Network.start() on the main thread; NetworkCLI.stop() inside it returns
\* only when no handler is running
CallNetworkStart ==
  /\ MainFree
  /\ cli = "serving" => conn = "closed"
  /\ \E outcomes \in [Nodes -> EngineOutcomes] :
       \E w \in {NetworkStart(World, outcomes)} :
          w.result # "no pid" /\ Commit(w) /\ Called("Network.start", 0, w)
  /\ UNCHANGED <<conn, out, wait_state>>
  /\ UNCHANGED aux

\* Network.stop() on the main thread
CallNetworkStop ==
  /\ MainFree
  /\ cli = "serving" => conn = "closed"
  /\ \E w \in {NetworkStop(World)} :
       Commit(w) /\ Called("Network.stop", 0, w)
  /\ UNCHANGED <<conn, out, wait_state>>
  /\ UNCHANGED aux

\* NetworkCLI.run(): the thread creates its server and serves
CLIRun ==
  /\ cli = "starting"
  /\ cli' = "serving"
  /\ UNCHANGED <<consensus_process, ledger_distribution_process, admin_http_gateway_process,
                 alive, others, ledger_db, minting_keys_dir, conn, out, wait_state, last>>
  /\ UNCHANGED aux

\* a client connects: handle() sends the first prompt
Connect ==
  /\ cli = "serving" /\ conn = "closed"
  /\ conn' = "open"
  /\ out' = <<Prompt>>
  /\ UNCHANGED <<consensus_process, ledger_distribution_process, admin_http_gateway_process,
                 alive, others, ledger_db, minting_keys_dir, cli, wait_state, last>>
  /\ UNCHANGED aux

\* the handler reads one non-empty line and processes it; only `start`
\* spawns an engine, and `status` and unknown commands ignore their argument
Command(cmd, args) ==
  /\ cli = "serving" /\ conn = "open"
  /\ cmd \in {"status", "bogus"} => args = UnknownName
  /\ \E outcome \in (IF cmd = "start" THEN EngineOutcomes ELSE {"ready"}) :
       \E h \in {Handle(World, cmd, args, outcome)} :
          /\ h.w.result # "no pid"
          /\ Commit(h.w)
          /\ out' = h.sent
          /\ conn' = IF h.open THEN "open" ELSE "closed"
          /\ Called(cmd, args, h.w)
  /\ UNCHANGED wait_state
  /\ UNCHANGED aux

\* the main thread calls Network.wait()
CallWait ==
  /\ MainFree
  /\ wait_state' = "waiting"
  /\ last' = [op |-> "Network.wait", node |-> 0, result |-> "called", spawned |-> {}, signalled |-> {}]
  /\ UNCHANGED <<consensus_process, ledger_distribution_process, admin_http_gateway_process,
                 alive, others, ledger_db, minting_keys_dir, cli, conn, out>>
  /\ UNCHANGED aux

\* one polling pass of Network.wait(): return False, or go to sleep
WaitPass ==
  /\ wait_state = "waiting"
  /\ IF WaitFindsDead(World)
     THEN /\ wait_state' = "returned"
          /\ last' = [op |-> "Network.wait", node |-> 0, result |-> "False", spawned |-> {}, signalled |-> {}]
     ELSE /\ wait_state' = "sleeping"
          /\ UNCHANGED last
  /\ UNCHANGED <<consensus_process, ledger_distribution_process, admin_http_gateway_process,
                 alive, others, ledger_db, minting_keys_dir, cli, conn, out>>
  /\ UNCHANGED aux

\* a foreign process of one of the names Network.stop kills comes up
ForeignStarts(bin) ==
  /\ bin \in OtherBins \ others
  /\ others' = others \cup {bin}
  /\ UNCHANGED <<consensus_process, ledger_distribution_process, admin_http_gateway_process,
                 alive, ledger_db, minting_keys_dir, cli, conn, out, wait_state, last>>
  /\ UNCHANGED aux

\* Network.wait(): time.sleep(1) is over, the next pass begins
WaitWake ==
  /\ wait_state = "sleeping"
  /\ wait_state' = "waiting"
  /\ UNCHANGED <<consensus_process, ledger_distribution_process, admin_http_gateway_process,
                 alive, others, ledger_db, minting_keys_dir, cli, conn, out, last>>
  /\ UNCHANGED aux

\* the node's own methods, called on a started network
NextNode ==
  \/ CallNetworkStart
  \/ \E n \in Nodes : CallNodeStart(n)
  \/ \E n \in Nodes : CallNodeStop(n)
  \/ \E pid \in Pids : ProcessDies(pid)

\* a started network driven through its control server
NextCLI ==
  \/ CallNetworkStart
  \/ CLIRun
  \/ Connect
  \/ \E cmd \in Commands, args \in Names : Command(cmd, args)
  \/ \E pid \in Pids : ProcessDies(pid)

\* the main thread's Network.start / stop / wait beside the control server
NextNet ==
  \/ CallNetworkStart
  \/ CallNetworkStop
  \/ CLIRun
  \/ Connect
  \/ \E pid \in Pids : ProcessDies(pid)
  \/ CallWait
  \/ WaitPass
  \/ WaitWake
  \/ \E bin \in OtherBins : ForeignStarts(bin)

\* Node.start, Node.stop, the commands of the control server and process
\* crashes, one call at a time
NextOps == NextNode \/ NextCLI

Next == NextNode \/ NextCLI \/ NextNet

SpecNode == Init /\ [][NextNode]_vars
SpecCLI == Init /\ [][NextCLI]_vars
SpecNet == Init /\ [][NextNet]_vars
SpecOps == Init /\ [][NextOps]_vars
Spec == Init /\ [][Next]_vars

\* ======================================================================
\* Network.start() statement by statement
\* ======================================================================
\* one executed statement of Network.start(): which, and for which node
Step(name, n) == [step |-> name, node |-> n]

\* the main thread is not inside Network.start()
BootFree == boot.pc \in {"idle", "returned", "raised"}

\* where the call goes after a statement that ended with `result`
BootNext(result, pc, i, step) ==
  boot' = [pc |-> IF result = "ok" THEN pc ELSE "raised",
           i |-> IF result = "ok" THEN i ELSE 0,
           steps |-> boot.steps \o <<step>>]

\* Network.start() is called; line 393: self.stop()
StartStop ==
  /\ MainFree /\ BootFree
  /\ cli = "serving" => conn = "closed"
  /\ \E w \in {NetworkStop(World)} :
       /\ Commit(w) /\ Called("Network.stop", 0, w)
       /\ boot' = [pc |-> IF w.result = "ok" THEN "keys" ELSE "raised", i |-> 0,
                   steps |-> <<Step("stop", 0)>>]
  /\ UNCHANGED <<conn, out, wait_state>>
  /\ UNCHANGED not_boot

\* line 397: self.generate_minting_keys()
StartKeys ==
  /\ boot.pc = "keys"
  /\ \E w \in {GenerateMintingKeys(World)} :
       /\ Commit(w) /\ Called("generate_minting_keys", 0, w)
       /\ BootNext(w.result, "nodes", 1, Step("keys", 0))
  /\ UNCHANGED <<conn, out, wait_state>>
  /\ UNCHANGED not_boot

\* lines 399-400: node.start(self) for the next node of the list, from its
\* call to its return
StartNode(n) ==
  /\ boot.pc = "nodes" /\ boot.i = n
  /\ \E outcome \in EngineOutcomes :
       \E w \in {NodeStart(World, n, outcome)} :
          /\ w.result # "no pid"
          /\ Commit(w) /\ Called("Node.start", n, w)
          /\ BootNext(w.result, IF n = NumNodes THEN "cli" ELSE "nodes", n + 1, Step("node", n))
  /\ UNCHANGED <<conn, out, wait_state>>
  /\ UNCHANGED not_boot

\* lines 403-404: self.cli = NetworkCLI(self); self.cli.start(); return
StartCLI ==
  /\ boot.pc = "cli"
  /\ cli' = "starting"
  /\ boot' = [pc |-> "returned", i |-> 0, steps |-> boot.steps \o <<Step("cli", 0)>>]
  /\ last' = [op |-> "cli.start", node |-> 0, result |-> "ok", spawned |-> {}, signalled |-> {}]
  /\ UNCHANGED <<consensus_process, ledger_distribution_process, admin_http_gateway_process,
                 alive, others, ledger_db, minting_keys_dir, conn, out, wait_state>>
  /\ UNCHANGED not_boot

\* Network.start() seen statement by statement, processes dying meanwhile
NextBoot ==
  \/ StartStop
  \/ StartKeys
  \/ \E n \in Nodes : StartNode(n)
  \/ StartCLI
  \/ CLIRun
  \/ \E pid \in Pids : ProcessDies(pid)

SpecBoot == Init /\ [][NextBoot]_vars


\* ----------------------------------------------------------------------
\* Network.start() with the readiness wait of Node.start() pass by pass
\* ----------------------------------------------------------------------
\* Node.start(network), lines 119-223: everything up to the engine's Popen
StartSpawn(w, n) ==
  IF w.consensus_process[n] # None THEN [w EXCEPT !.result = "AssertionError"]
  ELSE LET w1 == StartClearSidecars(w, n)
           pid == NewPid(w1, n, 1)
       IN IF ~w1.minting_keys_dir THEN [w1 EXCEPT !.result = "FileNotFoundError"]
          ELSE IF pid = None THEN [w1 EXCEPT !.result = "no pid"]
          ELSE [w1 EXCEPT !.consensus_process[n] = pid, !.alive = @ \cup {pid},
                          !.spawned = @ \cup {pid}]

\* a readiness wait that gives up instead of sleeping
ReadinessTest_GivesUp(w, n) ==
  IF w.ledger_db[n] THEN "sidecars"
  ELSE "stop"

\* lines 226-232: one test of `while not os.path.exists(ledger_db)` and of
\* the poll() in its body; there is no other way out of the loop
ReadinessTest(w, n) ==
  IF w.ledger_db[n] THEN "sidecars"
  ELSE IF ~PollIsNone(w, w.consensus_process[n]) THEN "stop"
  ELSE "sleep"

\* lines 399-400: node.start(self) of the next node, up to the engine's Popen
NodeSpawn(n) ==
  /\ boot.pc = "nodes" /\ boot.i = n
  /\ \E w \in {StartSpawn(World, n)} :
       /\ w.result # "no pid"
       /\ Commit(w) /\ Called("Popen", n, w)
       /\ boot' = [pc |-> IF w.result = "ok" THEN "waiting" ELSE "raised",
                   i |-> IF w.result = "ok" THEN n ELSE 0,
                   steps |-> boot.steps]
  /\ UNCHANGED <<conn, out, wait_state>>
  /\ UNCHANGED not_boot

\* lines 226-251: one pass of the readiness wait; it sleeps, or the start
\* goes on with the sidecars, or it returns through stop()
ReadyPoll ==
  /\ boot.pc = "waiting"
  /\ LET n == boot.i
         test == ReadinessTest(World, n)
     IN \E w \in {IF test = "sidecars" THEN StartSidecars(World, n)
                  ELSE IF test = "stop" THEN NodeStop(World, n)
                  ELSE World} :
          /\ w.result # "no pid"
          /\ Commit(w)
          /\ Called(IF test = "sleep" THEN "sleep" ELSE "Node.start", n, w)
          /\ IF test = "sleep" THEN boot' = boot
             ELSE BootNext(w.result, IF n = NumNodes THEN "cli" ELSE "nodes", n + 1,
                           Step("node", n))
  /\ UNCHANGED <<conn, out, wait_state>>
  /\ UNCHANGED not_boot

\* the engine of node n creates <ledger_dir>/data.mdb
EngineCreatesLedger(n) ==
  /\ consensus_process[n] \in alive
  /\ ~ledger_db[n]
  /\ ledger_db' = [ledger_db EXCEPT ![n] = TRUE]
  /\ UNCHANGED <<consensus_process, ledger_distribution_process, admin_http_gateway_process,
                 alive, others, minting_keys_dir, cli, conn, out, wait_state, last>>
  /\ UNCHANGED aux

NextReady ==
  \/ StartStop
  \/ StartKeys
  \/ \E n \in Nodes : NodeSpawn(n)
  \/ ReadyPoll
  \/ \E n \in Nodes : EngineCreatesLedger(n)
  \/ StartCLI
  \/ CLIRun
  \/ \E pid \in Pids : ProcessDies(pid)

SpecReady == Init /\ [][NextReady]_vars


\* ----------------------------------------------------------------------
\* Network.start() when the kill command of its stop() may fail
\* ----------------------------------------------------------------------
\* Network.start() is called; line 393: self.stop(), the kill command
\* meeting `fault`
StartStopKill(fault) ==
  /\ MainFree /\ BootFree
  /\ cli = "serving" => conn = "closed"
  /\ \E w \in {NetworkStopKill(World, fault)} :
       /\ Commit(w) /\ Called("Network.stop", fault, w)
       /\ boot' = [pc |-> IF w.result = "ok" THEN "keys" ELSE "raised", i |-> 0,
                   steps |-> <<Step("stop", 0)>>]
  /\ UNCHANGED <<conn, out, wait_state>>
  /\ UNCHANGED not_boot

NextKill ==
  \/ \E fault \in KillFaults : StartStopKill(fault)
  \/ StartKeys
  \/ \E n \in Nodes : StartNode(n)
  \/ StartCLI
  \/ CLIRun
  \/ \E pid \in Pids : ProcessDies(pid)
  \/ \E bin \in OtherBins : ForeignStarts(bin)

SpecKill == Init /\ [][NextKill]_vars


\* ======================================================================
\* Topology: QuorumSet, Peer, Network.add_node, default_entry_point
\* ======================================================================
MaxNodes == 3          \* nodes that direct add_node calls may add

BASE_CLIENT_PORT == 3200
BASE_PEER_PORT == 3300
BASE_ADMIN_PORT == 3400
BASE_ADMIN_HTTP_GATEWAY_PORT == 3500

\* a Python str, as a quorum-set member or where a Peer is expected
Str(s) == [str |-> s]
IsStr(v) == DOMAIN v = {"str"}

\* class Peer
Peer(name, broadcast_consensus_msgs) ==
  [name |-> name, broadcast_consensus_msgs |-> broadcast_consensus_msgs]
IsPeer(v) == DOMAIN v = {"name", "broadcast_consensus_msgs"}

\* class QuorumSet: the constructor stores its arguments as they are
QuorumSet(threshold, members) == [threshold |-> threshold, members |-> members]
IsQuorumSet(v) == DOMAIN v = {"threshold", "members"}

\* the public keys openssl may generate for a node: bodies of a PEM file,
\* in the standard base64 alphabet with its padding
KeyBodies == {<<"A", "+", "/", "=">>, <<"/", "b", "+", "=">>}

\* class Node: the fields of the topology; `block_version or 2`
Node(name, node_num, client_port, peer_port, admin_port, admin_http_gateway_port, peers, quorum_set, block_version, key) ==
  [name |-> name, node_num |-> node_num, client_port |-> client_port,
   peer_port |-> peer_port, admin_port |-> admin_port,
   admin_http_gateway_port |-> admin_http_gateway_port,
   peers |-> peers, quorum_set |-> quorum_set,
   block_version |-> IF block_version = None THEN 2 ELSE block_version,
   msg_signer_key |-> key]

\* Network.add_node whose ports do not depend on the number of nodes
AddNode_SamePorts(nw, name, peers, quorum_set, key) ==
  IF ~nw.has_block_version THEN [nw EXCEPT !.result = "AttributeError"]
  ELSE IF ~(\A i \in DOMAIN peers : IsPeer(peers[i])) \/ ~IsQuorumSet(quorum_set)
  THEN [nw EXCEPT !.result = "AssertionError"]
  ELSE [nw EXCEPT !.result = "ok",
                  !.nodes = Append(@, Node(name, Len(nw.nodes), BASE_CLIENT_PORT, BASE_PEER_PORT,
                                           BASE_ADMIN_PORT, BASE_ADMIN_HTTP_GATEWAY_PORT,
                                           peers, quorum_set, nw.block_version, key))]

\* Network.add_node(name, peers, quorum_set): self.block_version exists only
\* once default_entry_point has set it; Node() asserts the types of its
\* arguments and generates the node's key
AddNode(nw, name, peers, quorum_set, key) ==
  IF ~nw.has_block_version THEN [nw EXCEPT !.result = "AttributeError"]
  ELSE IF ~(\A i \in DOMAIN peers : IsPeer(peers[i])) \/ ~IsQuorumSet(quorum_set)
  THEN [nw EXCEPT !.result = "AssertionError"]
  ELSE LET node_num == Len(nw.nodes)
       IN [nw EXCEPT !.result = "ok",
                     !.nodes = Append(@, Node(name, node_num,
                                              BASE_CLIENT_PORT + node_num,
                                              BASE_PEER_PORT + node_num,
                                              BASE_ADMIN_PORT + node_num,
                                              BASE_ADMIN_HTTP_GATEWAY_PORT + node_num,
                                              peers, quorum_set, nw.block_version, key))]

\* ----------------------------------------------------------- peer URIs
\* the sed of Node.peer_uri, `s/+/-/g; s/\//_/g`, on one character
SedChar_PlusOnly(c) == IF c = "+" THEN "-" ELSE IF c = "/" THEN "-" ELSE c

SedChar(c) == IF c = "+" THEN "-" ELSE IF c = "/" THEN "_" ELSE c

\* Node.peer_uri(broadcast_consensus_msgs) of a node with that peer port and
\* that public key (the body of `openssl pkey -pubout`, first and last line
\* cut off): the URI as its sequence of characters, the fixed words of the
\* format standing as one element each
PeerUri(peer_port, pub_key, broadcast_consensus_msgs) ==
  <<"insecure-mcp://localhost:", ToString(peer_port), "/", "?", "consensus-msg-key", "=">>
  \o [i \in DOMAIN pub_key |-> SedChar(pub_key[i])]
  \o <<"&", "broadcast-consensus-msgs", "=", IF broadcast_consensus_msgs THEN "1" ELSE "0">>

\* the reader of a peer URI, as the address format has it: the query is what
\* follows '?', its parameters are separated by '&', and a parameter's value
\* is what follows its first '='; the key goes back to the base64 alphabet
RECURSIVE IndexOf(_, _, _)
IndexOf(seq, c, from) ==
  IF from > Len(seq) THEN 0
  ELSE IF seq[from] = c THEN from ELSE IndexOf(seq, c, from + 1)

\* the value of parameter `name` in a query, <<>> when it is not there
RECURSIVE QueryValue(_, _)
QueryValue(query, name) ==
  IF query = <<>> THEN <<>>
  ELSE LET amp == IndexOf(query, "&", 1)
           param == IF amp = 0 THEN query ELSE SubSeq(query, 1, amp - 1)
           rest == IF amp = 0 THEN <<>> ELSE SubSeq(query, amp + 1, Len(query))
           eq == IndexOf(param, "=", 1)
       IN IF eq = 2 /\ param[1] = name THEN SubSeq(param, 3, Len(param))
          ELSE QueryValue(rest, name)

UnsedChar(c) == IF c = "-" THEN "+" ELSE IF c = "_" THEN "/" ELSE c

ParsePeerUri(text) ==
  LET q == IndexOf(text, "?", 1)
      query == IF q = 0 THEN <<>> ELSE SubSeq(text, q + 1, Len(text))
      key == QueryValue(query, "consensus-msg-key")
      flag == QueryValue(query, "broadcast-consensus-msgs")
  IN [key |-> [i \in DOMAIN key |-> UnsedChar(key[i])],
      broadcast_consensus_msgs |-> (flag = <<"1">>)]

\* ------------------------------------------------------- network config
\* nodes_by_name[name]: the last node of the list that carries the name, 0
\* when there is none (a KeyError)
NodeByName(nodes, name) ==
  LET is == {i \in DOMAIN nodes : nodes[i].name = name}
  IN IF is = {} THEN 0 ELSE CHOOSE i \in is : \A j \in is : j <= i

\* a resolve_to_json that leaves out the members it does not support
RECURSIVE ResolveToJson_SkipsOthers(_, _)
ResolveToJson_SkipsOthers(qs, nodes) ==
  LET Resolved(m) ==
        IF IsStr(m)
        THEN IF NodeByName(nodes, m.str) = 0 THEN [error |-> "KeyError"]
             ELSE [type |-> "Node",
                   args |-> <<"localhost:", ToString(nodes[NodeByName(nodes, m.str)].peer_port)>>]
        ELSE IF IsQuorumSet(m)
        THEN LET inner == ResolveToJson_SkipsOthers(m, nodes)
             IN IF "error" \in DOMAIN inner THEN inner
                ELSE [type |-> "InnerSet", args |-> inner]
        ELSE [skip |-> TRUE]
      rs == [i \in DOMAIN qs.members |-> Resolved(qs.members[i])]
      bad == {i \in DOMAIN rs : "error" \in DOMAIN rs[i]}
  IN IF bad # {} THEN [error |-> rs[CHOOSE i \in bad : \A j \in bad : i <= j].error]
     ELSE [threshold |-> qs.threshold,
           members |-> SelectSeq(rs, LAMBDA r : "skip" \notin DOMAIN r)]

\* QuorumSet.resolve_to_json(nodes_by_name): the members in order, a name as
\* {'type': 'Node', 'args': 'localhost:<peer port>'}, an inner set as
\* {'type': 'InnerSet', 'args': <resolved>}; the first member that cannot be
\* resolved ends it with its exception
RECURSIVE ResolveToJson(_, _)
ResolveToJson(qs, nodes) ==
  LET Resolved(m) ==
        IF IsStr(m)
        THEN IF NodeByName(nodes, m.str) = 0 THEN [error |-> "KeyError"]
             ELSE [type |-> "Node",
                   args |-> <<"localhost:", ToString(nodes[NodeByName(nodes, m.str)].peer_port)>>]
        ELSE IF IsQuorumSet(m)
        THEN LET inner == ResolveToJson(m, nodes)
             IN IF "error" \in DOMAIN inner THEN inner
                ELSE [type |-> "InnerSet", args |-> inner]
        ELSE [error |-> "Exception"]
      rs == [i \in DOMAIN qs.members |-> Resolved(qs.members[i])]
      bad == {i \in DOMAIN rs : "error" \in DOMAIN rs[i]}
  IN IF bad # {} THEN [error |-> rs[CHOOSE i \in bad : \A j \in bad : i <= j].error]
     ELSE [threshold |-> qs.threshold, members |-> rs]

\* the peers of node i whose name no node carries
UnknownPeers(nodes, i) ==
  {k \in DOMAIN nodes[i].peers : NodeByName(nodes, nodes[i].peers[k].name) = 0}

\* the names in the peer list of node i
PeerNames(nodes, i) == {nodes[i].peers[k].name : k \in DOMAIN nodes[i].peers}

\* a known-peers test that lacks `node.name != self.name`
IsKnownPeer_WithSelf(nodes, i, j) ==
  nodes[j].name \notin PeerNames(nodes, i)

\* line 145: node j goes into the known_peers of node i
IsKnownPeer(nodes, i, j) ==
  nodes[j].name \notin PeerNames(nodes, i) /\ nodes[j].name # nodes[i].name

\* a source test that takes the peers with broadcast_consensus_msgs only
IsTxSource_BroadcastOnly(nodes, i, j) ==
  \E k \in DOMAIN nodes[i].peers :
     nodes[i].peers[k].name = nodes[j].name /\ nodes[i].peers[k].broadcast_consensus_msgs

\* line 146: the ledger distribution of node j is a tx source of node i
IsTxSource(nodes, i, j) ==
  nodes[j].name \in PeerNames(nodes, i)

\* Node.start(network), lines 130-157: the content of node<i>-network.json,
\* or the exception that keeps it from being written
NetworkJson(nodes, i) ==
  LET self == nodes[i]
      peer_uris == [k \in DOMAIN self.peers |->
                      LET peer == nodes[NodeByName(nodes, self.peers[k].name)]
                      IN PeerUri(peer.peer_port, peer.msg_signer_key,
                                 self.peers[k].broadcast_consensus_msgs)]
      Known(j) == IsKnownPeer(nodes, i, j)
      Source(j) == IsTxSource(nodes, i, j)
      known == SelectSeq([j \in DOMAIN nodes |-> j], Known)
      sources == SelectSeq([j \in DOMAIN nodes |-> j], Source)
      quorum_set == ResolveToJson(self.quorum_set, nodes)
  IN IF UnknownPeers(nodes, i) # {} THEN [error |-> "KeyError"]
     ELSE IF "error" \in DOMAIN quorum_set THEN quorum_set
     ELSE [quorum_set |-> quorum_set,
           broadcast_peers |-> peer_uris,
           known_peers |-> [k \in DOMAIN known |->
                              PeerUri(nodes[known[k]].peer_port, nodes[known[k]].msg_signer_key, TRUE)],
           tx_source_urls |-> [k \in DOMAIN sources |->
                                 <<"file://", "node-ledger-distribution-",
                                   ToString(nodes[sources[k]].node_num)>>]]

\* ------------------------------------------------------------- presets
\* one add_node call of a preset
AddNodeCall(name, peers, quorum_set) == [name |-> name, peers |-> peers, quorum_set |-> quorum_set]

\* 'dense5', lines 449-455: the names of range(5), each node with the four
\* other nodes as peers and as the members of its quorum set
Dense5Names == <<"0", "1", "2", "3", "4">>
Dense5Others(i) == SelectSeq(Dense5Names, LAMBDA x : x # Dense5Names[i])

\* 'dense5' whose threshold counts the node itself: 5 over its 4 other nodes
Dense5Call_FiveOfFour(i) ==
  AddNodeCall(Dense5Names[i],
              [k \in 1..4 |-> Peer(Dense5Others(i)[k], TRUE)],
              QuorumSet(5, [k \in 1..4 |-> Str(Dense5Others(i)[k])]))

Dense5Call(i) ==
  AddNodeCall(Dense5Names[i],
              [k \in 1..4 |-> Peer(Dense5Others(i)[k], TRUE)],
              QuorumSet(3, [k \in 1..4 |-> Str(Dense5Others(i)[k])]))

\* 'a-b-c' with a and c peered as well
ABCCalls_Triangle ==
  <<AddNodeCall("a", <<Peer("b", TRUE), Peer("c", TRUE)>>, QuorumSet(2, <<Str("b"), Str("c")>>)),
    AddNodeCall("b", <<Peer("a", TRUE), Peer("c", TRUE)>>, QuorumSet(2, <<Str("a"), Str("c")>>)),
    AddNodeCall("c", <<Peer("b", TRUE), Peer("a", TRUE)>>, QuorumSet(2, <<Str("a"), Str("b")>>))>>

\* 'a-b-c', lines 457-462
ABCCalls ==
  <<AddNodeCall("a", <<Peer("b", TRUE)>>, QuorumSet(2, <<Str("b"), Str("c")>>)),
    AddNodeCall("b", <<Peer("a", TRUE), Peer("c", TRUE)>>, QuorumSet(2, <<Str("a"), Str("c")>>)),
    AddNodeCall("c", <<Peer("b", TRUE)>>, QuorumSet(2, <<Str("a"), Str("b")>>))>>

\* 'ring5' and 'ring5b', lines 464-482: node i of '1'..'5' with the node
\* before it and the node after it as peers, the one after it as its quorum
RingNames == <<"1", "2", "3", "4", "5">>
RingPrev(i) == RingNames[IF i = 1 THEN 5 ELSE i - 1]
RingNext(i) == RingNames[IF i = 5 THEN 1 ELSE i + 1]

\* a ring call whose first peer is listed with the flag of the second
RingCall_BothBroadcast(i, prev_broadcasts) ==
  AddNodeCall(RingNames[i],
              <<Peer(RingPrev(i), TRUE), Peer(RingNext(i), TRUE)>>,
              QuorumSet(1, <<Str(RingNext(i))>>))

RingCall(i, prev_broadcasts) ==
  AddNodeCall(RingNames[i],
              <<Peer(RingPrev(i), prev_broadcasts), Peer(RingNext(i), TRUE)>>,
              QuorumSet(1, <<Str(RingNext(i))>>))

Presets == {"dense5", "a-b-c", "ring5", "ring5b"}
NetworkTypes == Presets \cup {"dense3"}
BlockVersions == {None, 3}

\* the add_node calls default_entry_point makes for a network type, in order
PresetCalls(network_type) ==
  CASE network_type = "dense5" -> [i \in 1..5 |-> Dense5Call(i)]
    [] network_type = "a-b-c" -> ABCCalls
    [] network_type = "ring5" -> [i \in 1..5 |-> RingCall(i, TRUE)]
    [] network_type = "ring5b" -> [i \in 1..5 |-> RingCall(i, FALSE)]
    [] OTHER -> <<>>

\* ------------------------------------------------------ topology actions
TopoFree == entry.pc \in {"idle", "raised", "returned"}

\* default_entry_point(network_type, block_version) is called on the new
\* Network; lines 447-485: the block version is stored, an unknown type raises
EntryCall(network_type, block_version) ==
  /\ entry.pc = "idle"
  /\ net' = [net EXCEPT !.has_block_version = TRUE, !.block_version = block_version,
                        !.result = IF network_type \in Presets THEN "ok" ELSE "Exception"]
  /\ entry' = [pc |-> IF network_type \in Presets THEN "adding" ELSE "raised",
               type |-> network_type, k |-> 1]
  /\ UNCHANGED <<vars_process, not_topo, network_json>>

\* the next add_node call of the preset; after the last one, self.start()
EntryAddNode ==
  /\ entry.pc = "adding"
  /\ \E key \in KeyBodies :
       LET c == PresetCalls(entry.type)[entry.k]
       IN net' = AddNode(net, c.name, c.peers, c.quorum_set, key)
  /\ entry' = IF entry.k = Len(PresetCalls(entry.type))
              THEN [entry EXCEPT !.pc = "starting", !.k = 1]
              ELSE [entry EXCEPT !.k = @ + 1]
  /\ network_json' = <<>>
  /\ UNCHANGED <<vars_process, not_topo>>

\* self.start(): the next node's Node.start writes its network file
EntryStartNode ==
  /\ entry.pc = "starting"
  /\ LET json == NetworkJson(net.nodes, entry.k)
     IN IF "error" \in DOMAIN json
        THEN /\ net' = [net EXCEPT !.result = json.error]
             /\ entry' = [entry EXCEPT !.pc = "raised"]
             /\ UNCHANGED network_json
        ELSE /\ network_json' = Append(network_json, json)
             /\ entry' = IF entry.k = Len(net.nodes) THEN [entry EXCEPT !.pc = "returned"]
                         ELSE [entry EXCEPT !.k = @ + 1]
             /\ UNCHANGED net
  /\ UNCHANGED <<vars_process, not_topo>>

\* what a caller of add_node may pass
ArgNames == {"a", "b"}
ArgPeers == {<<Peer("b", FALSE), Peer("a", TRUE)>>, <<Str("b")>>}
ArgQuorumSets ==
  {QuorumSet(1, <<Str("a")>>),
   QuorumSet(2, <<Str("b")>>),
   QuorumSet(1, <<Str("b"), QuorumSet(1, <<Str("a"), Str("b")>>)>>)}

\* a direct call of Network.add_node(name, peers, quorum_set)
CallAddNode(name, peers, quorum_set) ==
  /\ TopoFree
  /\ Len(net.nodes) < MaxNodes
  /\ \E key \in KeyBodies : net' = AddNode(net, name, peers, quorum_set, key)
  /\ UNCHANGED <<vars_process, not_topo, entry, network_json>>

\* default_entry_point as the program calls it, once on a new Network
NextPreset ==
  \/ \E t \in NetworkTypes, bv \in BlockVersions : EntryCall(t, bv)
  \/ EntryAddNode
  \/ EntryStartNode

\* any caller of default_entry_point and add_node
NextTopo ==
  \/ \E t \in NetworkTypes, bv \in BlockVersions : EntryCall(t, bv)
  \/ EntryAddNode
  \/ EntryStartNode
  \/ \E name \in ArgNames, peers \in ArgPeers, qs \in ArgQuorumSets :
       CallAddNode(name, peers, qs)

\* the quorum sets resolve_to_json is called on: nested ones, names that no
\* node may carry, members that are neither a name nor a QuorumSet
ResolveArgs ==
  ArgQuorumSets \cup
  {QuorumSet(0, <<>>),
   QuorumSet(2, <<Str("b"), Str("a"), Str("b")>>),
   QuorumSet(1, <<Str("2"), QuorumSet(3, <<Str("1"), QuorumSet(1, <<Str("2"), Str("1")>>)>>)>>),
   QuorumSet(1, <<Str("1"), Peer("2", TRUE)>>),
   QuorumSet(2, <<QuorumSet(1, <<Str("c"), Peer("a", FALSE)>>), Str("a")>>)}

\* quorum_set.resolve_to_json(nodes_by_name) over the nodes of the network
CallResolveToJson(qs) ==
  /\ TopoFree
  /\ resolved' = <<qs, ResolveToJson(qs, net.nodes)>>
  /\ UNCHANGED <<vars_process, boot, net, entry, network_json, uri, wait_pc, stop_pc>>

\* resolve_to_json called on the networks of default_entry_point
NextResolve ==
  \/ \E t \in NetworkTypes, bv \in BlockVersions : EntryCall(t, bv)
  \/ EntryAddNode
  \/ EntryStartNode
  \/ \E qs \in ResolveArgs : CallResolveToJson(qs)

SpecResolve == Init /\ [][NextResolve]_vars
SpecPreset == Init /\ [][NextPreset]_vars
SpecTopo == Init /\ [][NextTopo]_vars

\* ------------------------------------------------------ peer URI actions
MaxKeyLen == 3         \* characters of a public key before its padding

\* the characters openssl writes a key with, and the keys: base64 text,
\* padded with '=' or not
Base64Chars == {"A", "b", "+", "/"}
PubKeys ==
  LET bodies == UNION {[1..n -> Base64Chars] : n \in 1..MaxKeyLen}
  IN bodies \cup {body \o <<"=">> : body \in bodies}

\* Node.peer_uri(broadcast_consensus_msgs) is called on a node
CallPeerUri(peer_port, pub_key, broadcast_consensus_msgs) ==
  /\ uri.stage = "none"
  /\ uri' = [stage |-> "encoded", peer_port |-> peer_port, pub_key |-> pub_key,
             broadcast_consensus_msgs |-> broadcast_consensus_msgs,
             text |-> PeerUri(peer_port, pub_key, broadcast_consensus_msgs),
             read |-> <<>>]
  /\ UNCHANGED <<vars_process, not_uri>>

\* the peer that is given the URI reads it
ReadPeerUri ==
  /\ uri.stage = "encoded"
  /\ uri' = [uri EXCEPT !.stage = "read", !.read = <<ParsePeerUri(uri.text)>>]
  /\ UNCHANGED <<vars_process, not_uri>>

NextUri ==
  \/ \E port \in {BASE_PEER_PORT, BASE_PEER_PORT + 1}, key \in PubKeys, flag \in BOOLEAN :
       CallPeerUri(port, key, flag)
  \/ ReadPeerUri

SpecUri == Init /\ [][NextUri]_vars

\* ======================================================================
\* Network.wait() and a control-server stop, attribute access by attribute
\* access: neither thread holds a lock
\* ======================================================================
\* the handles in the order wait() looks at them, and in the order stop()
\* does
WaitOrder == <<"consensus_process", "admin_http_gateway_process", "ledger_distribution_process">>
StopOrder == <<"consensus_process", "ledger_distribution_process", "admin_http_gateway_process">>

\* node.<field> as the thread finds it when it loads the attribute
HandleOf(w, n, field) == w[field][n]

\* where wait() goes on after the test of one handle came out false
WaitAdvance(pc) ==
  IF pc.handle < 3 THEN [node |-> pc.node, handle |-> pc.handle + 1, at |-> "guard"]
  ELSE IF pc.node < NumNodes THEN [node |-> pc.node + 1, handle |-> 1, at |-> "guard"]
  ELSE [node |-> 0, handle |-> 0, at |-> "sleep"]

\* wait() that keeps the handle it tested in a local variable
WaitStep_LocalHandle(w, pc) ==
  LET h == HandleOf(w, pc.node, WaitOrder[pc.handle])
  IN CASE pc.at = "guard" ->
            IF h = None THEN [pc |-> WaitAdvance(pc), result |-> "ok"]
            ELSE [pc |-> [pc EXCEPT !.at = "poll"], result |-> "ok"]
       [] pc.at = "poll" ->
            IF h # None /\ ~PollIsNone(w, h)
            THEN [pc |-> [pc EXCEPT !.at = "print"], result |-> "ok"]
            ELSE [pc |-> WaitAdvance(pc), result |-> "ok"]
       [] OTHER -> [pc |-> pc, result |-> "False"]

\* one attribute load of wait(), lines 410-422, and what it leads to:
\* `node.h` in the guard, `node.h.poll()` after it, `node.h.poll()` in the
\* print; a method call on None raises AttributeError
WaitStep(w, pc) ==
  LET h == HandleOf(w, pc.node, WaitOrder[pc.handle])
  IN CASE pc.at = "guard" ->
            IF h = None THEN [pc |-> WaitAdvance(pc), result |-> "ok"]
            ELSE [pc |-> [pc EXCEPT !.at = "poll"], result |-> "ok"]
       [] pc.at = "poll" ->
            IF h = None THEN [pc |-> pc, result |-> "AttributeError"]
            ELSE IF ~PollIsNone(w, h) THEN [pc |-> [pc EXCEPT !.at = "print"], result |-> "ok"]
            ELSE [pc |-> WaitAdvance(pc), result |-> "ok"]
       [] OTHER ->
            IF h = None THEN [pc |-> pc, result |-> "AttributeError"]
            ELSE [pc |-> pc, result |-> "False"]

\* a pass of wait() begins with the first handle of the first node
WaitBegin ==
  /\ wait_state = "waiting" /\ wait_pc.at = "idle"
  /\ wait_pc' = [node |-> 1, handle |-> 1, at |-> "guard"]
  /\ UNCHANGED <<vars_process, not_race, stop_pc>>

\* the main thread's next attribute load inside wait()
WaitLoad ==
  /\ wait_state = "waiting" /\ wait_pc.at \in {"guard", "poll", "print"}
  /\ \E r \in {WaitStep(World, wait_pc)} :
       /\ wait_state' = CASE r.result = "AttributeError" -> "raised"
                          [] r.result = "False" -> "returned"
                          [] r.pc.at = "sleep" -> "sleeping"
                          [] OTHER -> "waiting"
       /\ wait_pc' = IF r.result = "ok" /\ r.pc.at # "sleep" THEN r.pc
                     ELSE [r.pc EXCEPT !.at = "idle"]
       /\ last' = IF r.result = "ok" THEN last
                  ELSE [op |-> "Network.wait", node |-> wait_pc.node, result |-> r.result,
                        spawned |-> {}, signalled |-> {}]
  /\ UNCHANGED <<consensus_process, ledger_distribution_process, admin_http_gateway_process,
                 alive, others, ledger_db, minting_keys_dir, cli, conn, out, not_race, stop_pc>>

\* where stop() goes on after one of its three tests
StopAdvance(pc) ==
  IF pc.handle < 3 THEN [pc EXCEPT !.handle = @ + 1, !.at = "test"]
  ELSE [pc EXCEPT !.handle = 0, !.at = "stopped"]

\* the handler has read `stop <name>` or `start <name>` for a node of the
\* network; lines 314-327: node.stop() is entered
CommandBegin(cmd, name) ==
  /\ cli = "serving" /\ conn = "open" /\ stop_pc.at = "idle"
  /\ cmd \in {"stop", "start"} /\ GetNode(name) # None
  /\ stop_pc' = [node |-> GetNode(name), handle |-> 1, at |-> "test", cmd |-> cmd]
  /\ out' = <<>>
  /\ UNCHANGED <<consensus_process, ledger_distribution_process, admin_http_gateway_process,
                 alive, others, ledger_db, minting_keys_dir, cli, conn, wait_state, last,
                 not_race, wait_pc>>

\* Node.stop(), one of lines 263/267/271 with the terminate() under it: a
\* handle that is set and whose process is alive gets the signal
StopTest ==
  /\ stop_pc.at = "test"
  /\ LET h == HandleOf(World, stop_pc.node, StopOrder[stop_pc.handle])
     IN IF h # None /\ PollIsNone(World, h)
        THEN /\ alive' = alive \ {h}
             /\ stop_pc' = [stop_pc EXCEPT !.at = "clear"]
        ELSE /\ stop_pc' = StopAdvance(stop_pc)
             /\ UNCHANGED alive
  /\ UNCHANGED <<consensus_process, ledger_distribution_process, admin_http_gateway_process,
                 others, ledger_db, minting_keys_dir, cli, conn, out, wait_state, last,
                 not_race, wait_pc>>

\* Node.stop(), one of lines 265/269/273: the handle is set to None
StopClear ==
  /\ stop_pc.at = "clear"
  /\ \E w \in {[World EXCEPT ![StopOrder[stop_pc.handle]][stop_pc.node] = None]} : Commit(w)
  /\ stop_pc' = StopAdvance(stop_pc)
  /\ UNCHANGED <<conn, out, wait_state, last, not_race, wait_pc>>

\* node.stop() has returned: `stop` answers, `start` calls node.start() and
\* answers unless that raised; the prompt follows
CommandEnd ==
  /\ stop_pc.at = "stopped"
  /\ \E outcome \in (IF stop_pc.cmd = "start" THEN EngineOutcomes ELSE {"ready"}) :
       \E w \in {IF stop_pc.cmd = "start" THEN NodeStart(World, stop_pc.node, outcome)
                 ELSE World} :
          /\ w.result # "no pid"
          /\ Commit(w)
          /\ Called(stop_pc.cmd, NodeName(stop_pc.node), w)
          /\ out' = IF w.result # "ok" THEN <<>>
                    ELSE <<Line(IF stop_pc.cmd = "start" THEN "Started <name>."
                                ELSE "Stopped <name>.", NodeName(stop_pc.node), "", 0), Prompt>>
          /\ conn' = IF w.result = "ok" THEN "open" ELSE "closed"
  /\ stop_pc' = [node |-> 0, handle |-> 0, at |-> "idle", cmd |-> ""]
  /\ UNCHANGED <<wait_state, not_race, wait_pc>>

\* the main thread in wait() while the control server stops and starts nodes
NextRace ==
  \/ CallNetworkStart
  \/ CLIRun
  \/ Connect
  \/ CallWait
  \/ WaitBegin
  \/ WaitLoad
  \/ WaitWake
  \/ \E cmd \in {"stop", "start"}, name \in Nodes : CommandBegin(cmd, name)
  \/ StopTest
  \/ StopClear
  \/ CommandEnd
  \/ \E pid \in Pids : ProcessDies(pid)

SpecRace == Init /\ [][NextRace]_vars

\* ======================================================================
\* The control connection: what the handler reads
\* ======================================================================
\* how a client's end of the connection goes away: closed (the handler's
\* next read is at end of input) or broken (the handler's next read raises)
Closings == {"eof", "reset"}

\* handle(), lines 297-302, when the client is gone: a read that raises makes
\* the handler return; at end of input readline() returns b'', the line is
\* empty and the loop continues with the next read, which is the same
ReadWhenGone(closing) == IF closing = "reset" THEN "closed" ELSE "spinning"

\* the client goes away while the handler waits for a line
ClientCloses(closing) ==
  /\ cli = "serving" /\ conn = "open"
  /\ conn' = closing
  /\ UNCHANGED <<consensus_process, ledger_distribution_process, admin_http_gateway_process,
                 alive, others, ledger_db, minting_keys_dir, cli, out, wait_state, last, aux>>

\* the handler's read after the client has gone
HandlerRead ==
  /\ cli = "serving" /\ conn \in Closings
  /\ conn' = ReadWhenGone(conn)
  /\ out' = <<>>
  /\ UNCHANGED <<consensus_process, ledger_distribution_process, admin_http_gateway_process,
                 alive, others, ledger_db, minting_keys_dir, cli, wait_state, last, aux>>

\* the handler reads a line that is empty once stripped: nothing is sent,
\* not even the prompt
BlankLine ==
  /\ cli = "serving" /\ conn = "open" /\ out # <<>>
  /\ out' = <<>>
  /\ UNCHANGED <<consensus_process, ledger_distribution_process, admin_http_gateway_process,
                 alive, others, ledger_db, minting_keys_dir, cli, conn, wait_state, last, aux>>

\* clients of the control server that come and go
NextConn ==
  \/ CallNetworkStart
  \/ CLIRun
  \/ Connect
  \/ \E cmd \in Commands, args \in Names : Command(cmd, args)
  \/ \E pid \in Pids : ProcessDies(pid)
  \/ \E closing \in Closings : ClientCloses(closing)
  \/ HandlerRead
  \/ BlankLine

SpecConn == Init /\ [][NextConn]_vars

\* ----------------------------------------------------------------------
\* Network.stop() beside the control server's handler
\* ----------------------------------------------------------------------
\* the main thread is inside server.shutdown()
InShutdown == boot.pc = "shutdown"

\* Network.stop() is called on the main thread, lines 427-428: with a
\* serving control server it enters self.cli.stop(), that is
\* server.shutdown(); otherwise the call runs to its end
StopCall ==
  /\ MainFree /\ BootFree
  /\ IF cli = "serving"
     THEN /\ boot' = [pc |-> "shutdown", i |-> 0, steps |-> <<Step("stop", 0)>>]
          /\ last' = [op |-> "shutdown", node |-> 0, result |-> "ok",
                      spawned |-> {}, signalled |-> {}]
          /\ UNCHANGED <<consensus_process, ledger_distribution_process,
                         admin_http_gateway_process, alive, others, ledger_db,
                         minting_keys_dir, cli>>
     ELSE \E w \in {NetworkStop(World)} :
            /\ Commit(w) /\ Called("Network.stop", 0, w)
            /\ boot' = [pc |-> IF w.result = "ok" THEN "returned" ELSE "raised", i |-> 0,
                        steps |-> <<Step("stop", 0)>>]
  /\ UNCHANGED <<conn, out, wait_state>>
  /\ UNCHANGED not_boot

\* server.shutdown() returns once serve_forever has left its loop, which it
\* tests between two requests only: no handler is running; lines 429-444
\* follow
ShutdownReturns ==
  /\ InShutdown
  /\ conn = "closed"
  /\ \E w \in {NetworkStop(World)} :
       /\ Commit(w) /\ Called("Network.stop", 0, w)
       /\ boot' = [boot EXCEPT !.pc = IF w.result = "ok" THEN "returned" ELSE "raised"]
  /\ UNCHANGED <<conn, out, wait_state>>
  /\ UNCHANGED not_boot

\* Network.stop() called at any moment of a network whose clients come and
\* go; a server asked to shut down accepts no further connection
NextShutdown ==
  \/ ~InShutdown /\ CallNetworkStart
  \/ CLIRun
  \/ ~InShutdown /\ Connect
  \/ \E cmd \in Commands, args \in Names : Command(cmd, args)
  \/ \E pid \in Pids : ProcessDies(pid)
  \/ \E closing \in Closings : ClientCloses(closing)
  \/ HandlerRead
  \/ BlankLine
  \/ StopCall
  \/ ShutdownReturns

SpecShutdown == Init /\ [][NextShutdown]_vars

\* ======================================================================
\* Properties
\* ======================================================================
handles == <<consensus_process, ledger_distribution_process, admin_http_gateway_process>>

\* the three handles of node n are None
AllNone(n) ==
  /\ consensus_process[n] = None
  /\ ledger_distribution_process[n] = None
  /\ admin_http_gateway_process[n] = None

\* what status() of node n answers, read off the handle and the process table
StatusWord(n) ==
  IF consensus_process[n] = None THEN "stopped"
  ELSE IF consensus_process[n] \in alive THEN "running" ELSE "exited"

\* the live engines that were spawned for node n
LiveEngines(n) == alive \cap PidPool(n, 1)

\* C1: Node.start() on a node whose consensus-process handle is set fails
\* with an AssertionError before any side effect: nothing is spawned or
\* signalled and handles and processes are as before; and no node ever has
\* more than one live engine.
C1_DoubleStartRefused ==
  /\ [][\A n \in Nodes :
          (CallNodeStart(n) /\ consensus_process[n] # None)
            => /\ last'.result = "AssertionError"
               /\ last'.spawned = {} /\ last'.signalled = {}
               /\ UNCHANGED <<handles, alive>>]_vars
  /\ [](\A n \in Nodes : Cardinality(LiveEngines(n)) <= 1)

\* C1 witness: a start was refused on a node with a live tracked engine
C1_Witness ==
  /\ last.op = "Node.start" /\ last.result = "AssertionError"
  /\ last.node \in Nodes
  /\ consensus_process[last.node] \in alive

\* C2: after Node.stop() returns, from any prior state, the three handles of
\* the node are None and status() is 'stopped'.
C2_StopClearsHandles ==
  [][\A n \in Nodes :
       CallNodeStop(n) => (AllNone(n)' /\ StatusWord(n)' = "stopped")]_vars

\* C4 as claimed: status() changes only stopped -> running (ledger db seen),
\* running -> exited, running -> stopped.
C4_ClaimedEdges == {<<"stopped", "running">>, <<"running", "exited">>, <<"running", "stopped">>}

C5_StopIdempotent ==
  [][\A n \in Nodes :
       CallNodeStop(n)
         => /\ last'.result = "ok"
            /\ AllNone(n) => (last'.signalled = {} /\ UNCHANGED <<handles, alive>>
                               /\ StatusWord(n)' = "stopped")
            /\ (last.op = "Node.stop" /\ last.node = n)
                 => (last'.signalled = {} /\ UNCHANGED <<handles, alive>>)]_vars

\* C5 witness: two stops in a row, the node being fully stopped
C5_Witness ==
  /\ last.op = "Node.stop" /\ last.node \in Nodes /\ last.signalled = {}
  /\ AllNone(last.node) /\ minting_keys_dir
  /\ \E m \in Nodes : StatusWord(m) = "running"

\* the i-th line that `status` must send, read off the handle and the
\* process table
ExpectedStatusLine(i) ==
  [text |-> "<name>: <status>", name |-> NodeName(i),
   status |-> IF consensus_process[i] = None THEN "stopped"
              ELSE IF consensus_process[i] \in alive THEN "running, pid=" ELSE "exited",
   pid |-> IF consensus_process[i] # None /\ consensus_process[i] \in alive
           THEN consensus_process[i] ELSE 0]

\* the number of prompts in what was sent
Prompts(sent) == Cardinality({i \in DOMAIN sent : sent[i] = Prompt})

\* C3: `start <name>` for a known node, whatever the node's state, ends with
\* one freshly spawned tracked engine and the answer 'Started <name>.' and
\* the prompt; it never fails on the double-start assertion.
C3_StartCommandIdempotent ==
  [][\A a \in Nodes :
       Command("start", a)
         => /\ last'.result = "ok"
            /\ consensus_process'[a] # None
            /\ consensus_process'[a] \in last'.spawned
            /\ Cardinality(last'.spawned \cap PidPool(a, 1)) = 1
            /\ out' = <<Line("Started <name>.", a, "", 0), Prompt>>
            /\ conn' = "open"]_vars

\* C6: every Network.start() completes, the second as well as the first:
\* each node gets a freshly spawned engine and a control server is started.
C6_NetworkRestart ==
  [][CallNetworkStart
       => /\ last'.result = "ok"
          /\ \A n \in Nodes : consensus_process'[n] \in last'.spawned
          /\ cli' = "starting"]_vars

\* C7: a polling pass of Network.wait() that finds a tracked process (engine,
\* gateway or ledger distribution) of some node terminated returns False; a
\* pass that finds them all alive does not return; wait() returns nothing
\* but False.
TrackedDead ==
  \E n \in Nodes :
    \E h \in {consensus_process[n], admin_http_gateway_process[n], ledger_distribution_process[n]} :
      h # None /\ h \notin alive

C7_WaitReturnsFalse ==
  /\ [][WaitPass => IF TrackedDead
                    THEN wait_state' = "returned" /\ last'.result = "False"
                    ELSE wait_state' = "sleeping"]_vars
  /\ [][(wait_state \in {"waiting", "sleeping"} /\ wait_state' \notin {"waiting", "sleeping"})
          => (WaitPass /\ TrackedDead /\ last'.op = "Network.wait"
              /\ last'.result = "False")]_vars

\* C7 witness: wait() has returned False while every tracked engine is
\* alive: a sidecar had died
C7_Witness ==
  /\ wait_state = "returned" /\ last.op = "Network.wait" /\ last.result = "False"
  /\ \A n \in Nodes : consensus_process[n] \in alive
  /\ \E n \in Nodes : ledger_distribution_process[n] # None
                      /\ ledger_distribution_process[n] \notin alive

\* C8: after every command line the handler has written its response lines
\* and then exactly one prompt, and reads on.
C8_PromptAfterEveryCommand ==
  [][\A cmd \in Commands, a \in Names :
       Command(cmd, a)
         => /\ conn' = "open"
            /\ out' # <<>>
            /\ out'[Len(out')] = Prompt
            /\ Prompts(out') = 1]_vars

\* C9: `status` sends one line per node, in node order, '<name>: <status>'
\* with 'stopped' iff the engine handle is None, 'exited' iff it is set and
\* the process has terminated, 'running, pid=<pid of the engine>' otherwise;
\* N lines for N nodes, then the prompt.
C9_StatusLines ==
  [][Command("status", UnknownName)
       => /\ Len(out') = NumNodes + 1
          /\ \A i \in Nodes : out'[i] = ExpectedStatusLine(i)
          /\ out'[NumNodes + 1] = Prompt
          /\ UNCHANGED <<handles, alive>>]_vars

\* C9 witness: a status answer with a stopped, an exited or a running node
\* in it, the nodes not all in the same state
C9_Witness ==
  /\ last.op = "status" /\ Len(out) = NumNodes + 1
  /\ \E i, j \in Nodes : out[i].status = "exited" /\ out[j].status = "running, pid="
                         /\ out[j].pid = consensus_process[j]

\* C10: `stop` or `start` with a name that no node carries, and a command
\* word other than status / stop / start, send exactly one error line (and
\* the prompt) and change no handle and no process.
C10_UnknownIsHarmless ==
  [][/\ \A cmd \in {"stop", "start"} :
          Command(cmd, UnknownName)
            => /\ out' = <<Line("Unknown node <name>", UnknownName, "", 0), Prompt>>
               /\ last'.spawned = {} /\ last'.signalled = {}
               /\ UNCHANGED <<handles, alive, ledger_db>>
     /\ Command("bogus", UnknownName)
            => /\ out' = <<Line("Unknown command", 0, "", 0), Prompt>>
               /\ last'.spawned = {} /\ last'.signalled = {}
               /\ UNCHANGED <<handles, alive, ledger_db>>]_vars

\* C10 witness: an unknown node was named while a node was running
C10_Witness ==
  /\ last.op \in {"stop", "start"} /\ last.node = UnknownName
  /\ out[1].text = "Unknown node <name>"
  /\ \E n \in Nodes : StatusWord(n) = "running"

\* the statements of Network.start() up to and including the start of node k
StepsThroughNode(k) ==
  <<Step("stop", 0), Step("keys", 0)>> \o [j \in 1..k |-> Step("node", j)]

\* every statement of Network.start() runs after exactly those before it:
\* the kill, the governor keys, the nodes in list order one at a time, and
\* the control-server thread after the last node
StartStepsInOrder ==
  [][/\ StartKeys => boot.steps = <<Step("stop", 0)>>
     /\ \A n \in Nodes : StartNode(n) => boot.steps = StepsThroughNode(n - 1)
     /\ StartCLI => boot.steps = StepsThroughNode(NumNodes)]_vars

\* the working directory holds nothing an earlier start has written
WorkDirRecreated == ~minting_keys_dir /\ \A n \in Nodes : ~ledger_db[n]

\* C11: within one Network.start() the steps come in this order: the kill of
\* stale processes, the recreation of the working directory, the governor
\* keys, Node.start for each node in list order (one returns before the next
\* begins), and the control-server thread after the last node's start.
C11_StartOrder ==
  /\ StartStepsInOrder
  /\ [][StartKeys => WorkDirRecreated]_vars

\* the engine that the last call spawned for node n has exited and the
\* node's ledger database has not appeared
EngineDiedStarting(n) ==
  /\ ~ledger_db[n]
  /\ \E p \in last.spawned \cap PidPool(n, 1) : p \notin alive

\* C12: when the engine spawned by Node.start() exits before the node's
\* ledger database exists, start() returns without raising, spawns neither
\* sidecar (both sidecar handles are None), and status() then reports
\* 'exited'.
C12_StartupCrashSilent ==
  [][\A n \in Nodes :
       (StartNode(n) /\ EngineDiedStarting(n)')
         => /\ last'.result = "ok"
            /\ last'.spawned \subseteq PidPool(n, 1)
            /\ ledger_distribution_process'[n] = None
            /\ admin_http_gateway_process'[n] = None
            /\ StatusWord(n)' = "exited"
            /\ boot'.pc # "raised"]_vars

\* C12 witness: a node's start inside Network.start() has returned after
\* its engine died, the node before it running with its sidecars
C12_Witness ==
  /\ last.op = "Node.start" /\ last.result = "ok" /\ last.node = NumNodes
  /\ EngineDiedStarting(NumNodes)
  /\ StatusWord(NumNodes) = "exited"
  /\ StatusWord(1) = "running" /\ ledger_distribution_process[1] \in alive

\* the four ports of a node
Ports(node) ==
  <<node.client_port, node.peer_port, node.admin_port, node.admin_http_gateway_port>>

\* C13: after any sequence of add_node calls the node with index i (i nodes
\* were added before it) has the ports (3200+i, 3300+i, 3400+i, 3500+i), and
\* any two distinct nodes of the network differ in their port tuples.
C13_PortsByIndex ==
  /\ \A k \in DOMAIN net.nodes :
       /\ net.nodes[k].node_num = k - 1
       /\ Ports(net.nodes[k]) = <<3200 + (k - 1), 3300 + (k - 1), 3400 + (k - 1), 3500 + (k - 1)>>
  /\ \A k, l \in DOMAIN net.nodes : k # l => Ports(net.nodes[k]) # Ports(net.nodes[l])

\* C13 witness: direct add_node calls have filled a network, two of its nodes
\* under one name
C13_Witness ==
  /\ entry.pc = "raised" /\ Len(net.nodes) = MaxNodes
  /\ net.result = "ok"
  /\ \E k, l \in DOMAIN net.nodes : k # l /\ net.nodes[k].name = net.nodes[l].name

\* a declared quorum set and every quorum set nested in it
RECURSIVE SetsIn(_)
SetsIn(qs) ==
  {qs} \cup UNION {SetsIn(qs.members[i]) : i \in {j \in DOMAIN qs.members : IsQuorumSet(qs.members[j])}}

\* a resolved quorum set and every inner set of it
RECURSIVE ResolvedSetsIn(_)
ResolvedSetsIn(json) ==
  {json} \cup UNION {ResolvedSetsIn(json.members[i].args) :
                       i \in {j \in DOMAIN json.members : json.members[j].type = "InnerSet"}}

Built(t) == entry.type = t /\ entry.pc \in {"starting", "returned"}

\* the peers of a node as a set of (name, broadcast flag) pairs, and the
\* number of entries of its peer list
PeerSet(node) ==
  {<<node.peers[k].name, node.peers[k].broadcast_consensus_msgs>> : k \in DOMAIN node.peers}

\* the members of a flat quorum set, as a set of names
MemberSet(qs) == {qs.members[k].str : k \in DOMAIN qs.members}

\* the node of that name in the network
TheNode(name) == net.nodes[CHOOSE k \in DOMAIN net.nodes : net.nodes[k].name = name]

\* C15: in the network of the 'a-b-c' preset, b's peer list is exactly
\* {a, c}, both with broadcast true; a's is exactly {b}, c's is exactly {b};
\* and a's quorum set is 2 of {b, c} although c is not a peer of a.
C15_ABCTopology ==
  Built("a-b-c")
    => /\ [k \in DOMAIN net.nodes |-> net.nodes[k].name] = <<"a", "b", "c">>
       /\ PeerSet(TheNode("b")) = {<<"a", TRUE>>, <<"c", TRUE>>}
       /\ Len(TheNode("b").peers) = 2
       /\ PeerSet(TheNode("a")) = {<<"b", TRUE>>} /\ Len(TheNode("a").peers) = 1
       /\ PeerSet(TheNode("c")) = {<<"b", TRUE>>} /\ Len(TheNode("c").peers) = 1
       /\ TheNode("a").quorum_set.threshold = 2
       /\ Len(TheNode("a").quorum_set.members) = 2
       /\ MemberSet(TheNode("a").quorum_set) = {"b", "c"}

\* C15 witness: the 'a-b-c' network is built and started: a's network file
\* has one broadcast peer and names c among the known peers only
C15_Witness ==
  /\ entry.type = "a-b-c" /\ entry.pc = "returned"
  /\ Len(network_json[1].broadcast_peers) = 1
  /\ Len(network_json[1].known_peers) = 1
  /\ Len(network_json[1].quorum_set.members) = 2

\* the name of the k-th node of a ring and the indices of its neighbours
RingName(k) == ToString(k)
PrevInRing(k) == ((k + 3) % 5) + 1
NextInRing(k) == (k % 5) + 1

\* C16: 'dense5' builds 5 nodes, each with the 4 other nodes as broadcast
\* peers and a quorum set of threshold 3 over those 4; 'ring5' builds a
\* cycle of 5 nodes, each with the node before and the node after it as
\* broadcast peers; 'ring5b' builds the same cycle, the node after with
\* broadcast true and the node before with broadcast false; any other
\* network type ends in an error with no node added.
C16_PresetGraphs ==
  /\ Built("dense5")
       => /\ Len(net.nodes) = 5
          /\ \A k \in 1..5 :
               LET others5 == {ToString(j - 1) : j \in (1..5) \ {k}}
               IN /\ net.nodes[k].name = ToString(k - 1)
                  /\ PeerSet(net.nodes[k]) = {<<o, TRUE>> : o \in others5}
                  /\ Len(net.nodes[k].peers) = 4
                  /\ net.nodes[k].quorum_set.threshold = 3
                  /\ Len(net.nodes[k].quorum_set.members) = 4
                  /\ MemberSet(net.nodes[k].quorum_set) = others5
  /\ Built("ring5")
       => /\ Len(net.nodes) = 5
          /\ \A k \in 1..5 :
               /\ net.nodes[k].name = RingName(k)
               /\ Len(net.nodes[k].peers) = 2
               /\ PeerSet(net.nodes[k]) = {<<RingName(PrevInRing(k)), TRUE>>,
                                           <<RingName(NextInRing(k)), TRUE>>}
  /\ Built("ring5b")
       => /\ Len(net.nodes) = 5
          /\ \A k \in 1..5 :
               /\ net.nodes[k].name = RingName(k)
               /\ Len(net.nodes[k].peers) = 2
               /\ PeerSet(net.nodes[k]) = {<<RingName(PrevInRing(k)), FALSE>>,
                                           <<RingName(NextInRing(k)), TRUE>>}
  /\ (entry.pc # "idle" /\ entry.type \notin {"dense5", "a-b-c", "ring5", "ring5b"})
       => (entry.pc = "raised" /\ net.result = "Exception" /\ net.nodes = <<>>)

\* C16 witness: the 'ring5b' network is built and started: each node's
\* network file lists both neighbours, one of them not to be broadcast to
C16_Witness ==
  /\ entry.type = "ring5b" /\ entry.pc = "returned"
  /\ Len(net.nodes) = 5 /\ Len(network_json) = 5
  /\ \A k \in 1..5 : Len(network_json[k].broadcast_peers) = 2

\* C17: a node's public key and broadcast flag, encoded into its peer URI
\* and read back from it, are the same key and the same flag; no two
\* (key, flag) pairs have the same URI.
C17_PeerUriRoundTrip ==
  /\ uri.stage = "read"
       => /\ uri.read[1].key = uri.pub_key
          /\ uri.read[1].broadcast_consensus_msgs = uri.broadcast_consensus_msgs
  /\ uri.stage # "none"
       => \A key \in PubKeys, flag \in BOOLEAN :
            PeerUri(uri.peer_port, key, flag) = uri.text
              => (key = uri.pub_key /\ flag = uri.broadcast_consensus_msgs)

\* C17 witness: a padded key with '+' and '/' in it and the flag false have
\* gone through the URI and back
C17_Witness ==
  /\ uri.stage = "read"
  /\ uri.pub_key = <<"+", "/", "A", "=">>
  /\ ~uri.broadcast_consensus_msgs
  /\ uri.text[Len(uri.text)] = "0"
  /\ \E i \in DOMAIN uri.text : uri.text[i] = "_"

\* the handle wait() is looking at, as it is now
WaitHandle == HandleOf(World, wait_pc.node, WaitOrder[wait_pc.handle])

\* the control thread is inside Node.stop() and has terminated, and not yet
\* cleared, that handle of that node
StopPending(n, field) ==
  stop_pc.at = "clear" /\ stop_pc.node = n /\ StopOrder[stop_pc.handle] = field

\* C18: wait() on the main thread and a control-server `stop`/`start` on the
\* same node share the handles without a lock: when wait() has found a
\* handle non-null in its guard and the control thread's Node.stop() has set
\* it to None since, wait()'s poll of it is a call on None and raises; wait()
\* raises in no other way, and only the control thread (Node.stop(), or the
\* Node.start() of `start`) takes the handle away under it.
C18_WaitPollsNone ==
  /\ [][(WaitLoad /\ wait_pc.at \in {"poll", "print"} /\ WaitHandle = None)
          => (wait_state' = "raised" /\ last'.result = "AttributeError")]_vars
  /\ [][(wait_state = "waiting" /\ wait_state' = "raised")
          => (WaitLoad /\ wait_pc.at \in {"poll", "print"} /\ WaitHandle = None)]_vars
  /\ [][(wait_pc.at = "guard" /\ wait_pc'.at = "poll") => WaitHandle # None]_vars
  /\ [][\A n \in Nodes, k \in 1..3 :
          (/\ wait_pc.node = n /\ wait_pc.handle = k /\ wait_pc.at \in {"poll", "print"}
           /\ HandleOf(World, n, WaitOrder[k]) # None
           /\ HandleOf(World, n, WaitOrder[k])' = None)
            => ((StopClear \/ CommandEnd) /\ stop_pc.node = n)]_vars

\* C18 witness: wait() has raised AttributeError on the engine handle of a
\* node that the control thread is still stopping
C18_Witness ==
  /\ wait_state = "raised" /\ last.op = "Network.wait" /\ last.result = "AttributeError"
  /\ last.node \in Nodes /\ consensus_process[last.node] = None
  /\ stop_pc.node = last.node /\ stop_pc.at \in {"test", "clear", "stopped"}

\* some tracked process has terminated that the control thread's stop() did
\* not just signal
UnexpectedExit ==
  \E n \in Nodes : \E k \in 1..3 :
    LET h == HandleOf(World, n, WaitOrder[k])
    IN h # None /\ h \notin alive /\ ~StopPending(n, WaitOrder[k])

\* C19: wait() returns False only for an unexpected exit: a control-server
\* `stop <name>`, or the stop phase of `start <name>`, on a node whose
\* processes are all alive never makes a concurrent wait() return False.
C19_StopNeverEndsWait ==
  [][(wait_state = "waiting" /\ wait_state' = "returned") => UnexpectedExit]_vars

\* C20: the control server serves one connection after another: once a
\* client has closed its connection (end of input, or an error on the read)
\* the handler returns, so that the next client is accepted, gets its
\* prompt and is served.
C20_HandlerReturnsOnClose ==
  /\ [][HandlerRead => conn' = "closed"]_vars
  /\ [](cli = "serving" => conn \in {"closed", "open"} \cup Closings)

\* node n has got a sidecar in this step that this step spawned
SidecarSpawned(n) ==
  \/ /\ ledger_distribution_process'[n] # ledger_distribution_process[n]
     /\ ledger_distribution_process'[n] \in last'.spawned
  \/ /\ admin_http_gateway_process'[n] # admin_http_gateway_process[n]
     /\ admin_http_gateway_process'[n] \in last'.spawned

\* C21: Node.start() spawns the two sidecars only after the engine spawned
\* by that same call has made the node's ledger database appear: the file
\* is not there when the call begins and is there when the sidecars are
\* spawned, on the first start and on every restart of the node.
C21_SidecarsAfterOwnLedger ==
  [][\A n \in Nodes :
       SidecarSpawned(n)
         => /\ ~ledger_db[n] /\ ledger_db'[n]
            /\ consensus_process'[n] \in last'.spawned]_vars

\* the node a spawned process belongs to
NodeOf(pid) == ((pid - 1) \div (3 * Gens)) + 1

\* the start of the node under way is still inside its readiness wait
Waiting == boot.pc = "waiting"

\* C22: the readiness wait has no timeout. A pass of the wait leaves the
\* loop if and only if the ledger database file exists or the engine has
\* exited; while the start of a node waits, no process of another node is
\* spawned, the start does not move to another node and the control server
\* is not started.
C22_WaitWithoutTimeout ==
  [][/\ (Waiting /\ ~Waiting')
          => (ledger_db[boot.i] \/ consensus_process[boot.i] \notin alive)
     /\ (ReadyPoll /\ (ledger_db[boot.i] \/ consensus_process[boot.i] \notin alive))
          => ~Waiting'
     /\ Waiting
          => /\ \A p \in alive' \ alive : NodeOf(p) = boot.i
             /\ cli = "None" /\ cli' = "None"
             /\ Waiting' => boot'.i = boot.i]_vars

\* the first node's engine runs without a ledger database, the wait has
\* slept, the second node and the control server have not been started
C22_Witness ==
  /\ Waiting /\ boot.i = 1
  /\ last.op = "sleep"
  /\ consensus_process[1] \in alive /\ ~ledger_db[1]
  /\ consensus_process[2] = None
  /\ cli = "None"

\* the nodes whose ledger distribution is a source in the k-th file written
SourceNums(k) ==
  {network_json[k].tx_source_urls[j][3] : j \in DOMAIN network_json[k].tx_source_urls}

\* the nodes named by a peer of node k whose broadcast flag is in `flags`
PeerNums(k, flags) ==
  {ToString(net.nodes[m].node_num) :
     m \in {m \in DOMAIN net.nodes :
              \E j \in DOMAIN net.nodes[k].peers :
                 /\ net.nodes[k].peers[j].name = net.nodes[m].name
                 /\ net.nodes[k].peers[j].broadcast_consensus_msgs \in flags}}

\* C23 as claimed: the tx_source_urls of a node are the ledger-distribution
\* directories of exactly the peers with broadcast=true, one URL each; the
\* previous neighbour in 'ring5b' contributes none.
C23_SourcesAreBroadcastPeers ==
  \A k \in DOMAIN network_json :
     /\ SourceNums(k) = PeerNums(k, {TRUE})
     /\ Len(network_json[k].tx_source_urls) = Cardinality(PeerNums(k, {TRUE}))

\* C23: the tx_source_urls of a node are the ledger-distribution directories
\* of exactly the nodes named in its peer list, whatever their broadcast
\* flag, one URL each; in 'ring5b' the previous neighbour, a peer with
\* broadcast=false, contributes its URL too.
C23_SourcesArePeers ==
  \A k \in DOMAIN network_json :
     /\ SourceNums(k) = PeerNums(k, BOOLEAN)
     /\ Len(network_json[k].tx_source_urls) = Cardinality(PeerNums(k, BOOLEAN))
     /\ \A j \in DOMAIN network_json[k].tx_source_urls :
          network_json[k].tx_source_urls[j][1] = "file://"

\* 'ring5b' has written the file of a node whose two sources are its next
\* neighbour and its previous neighbour, the latter with broadcast=false
C23_Witness ==
  /\ entry.type = "ring5b"
  /\ \E k \in DOMAIN network_json :
       /\ Cardinality(SourceNums(k)) = 2
       /\ Cardinality(PeerNums(k, {FALSE})) = 1
       /\ PeerNums(k, {FALSE}) \subseteq SourceNums(k)

\* C24: after Network.stop() has returned normally, no process that carries
\* one of the known binary names is alive, whichever of them were running
\* when it was called.
C24_StopKillsAllKnown ==
  [][(CallNetworkStop /\ last'.result = "ok")
       => (alive' = {} /\ others' = {})]_vars

\* C25 as claimed: whatever exit status the kill command of Network.stop()
\* returns, the cleanup does not raise: stop() returns normally and
\* Network.start() goes on.
C25_CleanupNeverRaises ==
  [][\A fault \in KillFaults :
       (StartStopKill(fault) /\ cli # "starting")
         => (last'.result = "ok" /\ boot'.pc = "keys")]_vars

\* C25: the cleanup of Network.stop() does not raise when the kill command
\* exits 0 (success) or 1 (no process matched): stop() returns normally and
\* Network.start() goes on; with any other exit status stop() raises
\* CalledProcessError, Network.start() ends there and starts nothing.
C25_CleanupRaisesButOnOne ==
  [][\A fault \in KillFaults :
       (StartStopKill(fault) /\ cli # "starting")
         => IF fault \in {0, 1}
            THEN last'.result = "ok" /\ boot'.pc = "keys"
            ELSE /\ last'.result = "CalledProcessError"
                 /\ boot'.pc = "raised"
                 /\ alive' = alive /\ others' = others]_vars

\* Network.start() has ended in its stop() with the kill command's failure,
\* processes of a previous start and a foreign one still alive
C25_Witness ==
  /\ last.op = "Network.stop" /\ last.result = "CalledProcessError"
  /\ boot.pc = "raised"
  /\ alive # {} /\ others # {}

\* the resolution json keeps threshold, number and order of the members of
\* qs at every level, a name standing as the Node of its peer port and an
\* inner set as the InnerSet of its own resolution
RECURSIVE Faithful(_, _, _)
Faithful(qs, json, nodes) ==
  /\ json.threshold = qs.threshold
  /\ Len(json.members) = Len(qs.members)
  /\ \A i \in DOMAIN qs.members :
       IF IsStr(qs.members[i])
       THEN /\ NodeByName(nodes, qs.members[i].str) # 0
            /\ json.members[i] =
                 [type |-> "Node",
                  args |-> <<"localhost:",
                             ToString(BASE_PEER_PORT
                                      + nodes[NodeByName(nodes, qs.members[i].str)].node_num)>>]
       ELSE /\ IsQuorumSet(qs.members[i])
            /\ json.members[i].type = "InnerSet"
            /\ Faithful(qs.members[i], json.members[i].args, nodes)

\* some member of qs, at any level, is neither a name nor a QuorumSet
RECURSIVE HasOtherMember(_)
HasOtherMember(qs) ==
  \E i \in DOMAIN qs.members :
     IF IsStr(qs.members[i]) THEN FALSE
     ELSE IF IsQuorumSet(qs.members[i]) THEN HasOtherMember(qs.members[i])
     ELSE TRUE

\* C26: resolve_to_json keeps the threshold and the number and order of the
\* members at every nesting level; a name becomes {type: 'Node', args:
\* 'localhost:<peer port>'}, a nested QuorumSet {type: 'InnerSet', args:
\* <its resolution>}, and a member of any other type gives an error
\* instead of a result.
C26_ResolveKeepsStructure ==
  resolved # <<>> =>
    /\ HasOtherMember(resolved[1]) => "error" \in DOMAIN resolved[2]
    /\ "error" \notin DOMAIN resolved[2] => Faithful(resolved[1], resolved[2], net.nodes)

\* a set with a set inside a set has been resolved
C26_Witness ==
  /\ resolved # <<>>
  /\ "error" \notin DOMAIN resolved[2]
  /\ \E i \in DOMAIN resolved[2].members :
       /\ resolved[2].members[i].type = "InnerSet"
       /\ \E j \in DOMAIN resolved[2].members[i].args.members :
            resolved[2].members[i].args.members[j].type = "InnerSet"

UriPorts(uris) == {uris[j][2] : j \in DOMAIN uris}

\* the peer ports of the nodes of the network other than node k
OtherPorts(k) == {ToString(net.nodes[m].peer_port) : m \in DOMAIN net.nodes \ {k}}

\* every name of the quorum set qs, at any level, is that of a node of the
\* network other than node k
RECURSIVE NamesOthers(_, _)
NamesOthers(qs, k) ==
  \A i \in DOMAIN qs.members :
     IF IsStr(qs.members[i])
     THEN \E m \in DOMAIN net.nodes \ {k} : net.nodes[m].name = qs.members[i].str
     ELSE NamesOthers(qs.members[i], k)

\* C28: for every node of every preset, the file written at start lists
\* every other node exactly once across broadcast_peers and known_peers,
\* the two being disjoint and never holding the node itself; every name in
\* its quorum set and in its peer list is that of another node of the
\* network, and no start ends with a lookup error.
C28_EveryOtherNodeOnce ==
  /\ entry.pc # "raised" \/ entry.type \notin Presets
  /\ entry.pc \in {"starting", "returned"} =>
       \A k \in DOMAIN net.nodes :
          /\ NamesOthers(net.nodes[k].quorum_set, k)
          /\ \A j \in DOMAIN net.nodes[k].peers :
               \E m \in DOMAIN net.nodes \ {k} :
                  net.nodes[m].name = net.nodes[k].peers[j].name
  /\ \A k \in DOMAIN network_json :
       /\ UriPorts(network_json[k].broadcast_peers) \cup UriPorts(network_json[k].known_peers)
            = OtherPorts(k)
       /\ UriPorts(network_json[k].broadcast_peers) \cap UriPorts(network_json[k].known_peers)
            = {}
       /\ Len(network_json[k].broadcast_peers) + Len(network_json[k].known_peers)
            = Len(net.nodes) - 1

\* 'a-b-c' has written the file of its first node: b is its broadcast peer
\* and c its known peer
C28_Witness ==
  /\ entry.type = "a-b-c"
  /\ Len(network_json) >= 1
  /\ Len(network_json[1].broadcast_peers) = 1
  /\ Len(network_json[1].known_peers) = 1

\* C29: Network.stop() called after Network.start() returns in the end: it
\* does not end with an exception when the control thread has not created
\* its server yet, and its server.shutdown() is never left waiting for a
\* handler that cannot return, whether the client is still connected or
\* has disconnected before.
C29_StopReturns ==
  /\ [][StopCall => last'.result # "AttributeError"]_vars
  /\ [](InShutdown => conn # "spinning")

\* the nodes a command line may change: the node its argument names
Named(cmd, args) ==
  IF cmd \in {"stop", "start"} /\ GetNode(args) # None THEN {GetNode(args)} ELSE {}

\* C30: a `stop <name>` or `start <name>` command changes the handles and
\* the status of the named node only: handles, processes and status of
\* every other node stay as they are, and so do the nodes of the network
\* with their order, ports, peers and quorum sets; `status` changes nothing.
C30_CommandFrame ==
  [][\A cmd \in Commands, args \in Names :
       Command(cmd, args) =>
         /\ \A m \in Nodes \ Named(cmd, args) :
              /\ consensus_process'[m] = consensus_process[m]
              /\ ledger_distribution_process'[m] = ledger_distribution_process[m]
              /\ admin_http_gateway_process'[m] = admin_http_gateway_process[m]
              /\ \A p \in Pids : NodeOf(p) = m => (p \in alive' <=> p \in alive)
              /\ StatusWord(m)' = StatusWord(m)
              /\ ledger_db'[m] = ledger_db[m]
         /\ net' = net /\ network_json' = network_json
         /\ cmd = "status" =>
              UNCHANGED <<handles, alive, others, ledger_db, minting_keys_dir, cli>>]_vars

\* `stop` has terminated the processes of the node it names while another
\* node runs
C30_Witness ==
  /\ last.op = "stop" /\ last.signalled # {}
  /\ GetNode(last.node) # None
  /\ consensus_process[GetNode(last.node)] = None
  /\ \E m \in Nodes \ {GetNode(last.node)} : StatusWord(m) = "running"

====
